---- MODULE Spec2Model ----
(***************************************************************************)
(* Appeal Strategy Engine of the parking-citation appeal assistant:        *)
(* the jurisdiction catalog (parking_appeal/regulations.py), the angle     *)
(* catalog, the situation classifier and the evidence-strength evaluator   *)
(* (parking_appeal/appeal_strategies.py).                                  *)
(*                                                                         *)
(* Python values are represented as follows.                               *)
(*   - A str on which the code computes (upper, lower, replace) is a       *)
(*     sequence of one-character strings, so that the computation is       *)
(*     carried out character by character.                                 *)
(*   - A str the code only stores, compares or uses as a dict key is a     *)
(*     TLA+ string.                                                        *)
(*   - A dict is a function from its keys to its values; d.get(k) is       *)
(*     DictGet(d, k).                                                      *)
(*   - The value of a fact or of an evidence entry is written as its       *)
(*     Python repr: "None", "False", "True", "''", "'text'".               *)
(*   - An Optional argument or result is NoneValue or Str(s) / a record.   *)
(*   - The outcome of a call is Return(v) or Raise(exception).             *)
(***************************************************************************)
EXTENDS Integers, Sequences, FiniteSets, TLC

(***************************************************************************)
(* Bounds of the explored inputs.                                          *)
(***************************************************************************)
\* largest number of entries of an arbitrary citation-facts mapping
MaxFacts == 2
\* how many evidence keys that match no required item of the angle may be in
\* an evidence set
MaxForeignKeys == 1
\* longest state-code string passed to the jurisdiction catalog
MaxStateCodeLen == 2
\* largest number of entries of a facts or evidence dict passed to the prompt
\* builder
MaxEntries == 2
\* longest list of angle keys passed to a generator
MaxAngles == 2
\* how many objects of the catalogs a caller changes through the values that
\* get_combined_info returned to it
MaxCallerWrites == 1

\* the number of callers that invoke operations at the same time
NumCallers == 2

\* the number of evidence types selected by number in the questionnaire
MaxSelected == 2

(***************************************************************************)
(* Python built-ins used by the code.                                      *)
(***************************************************************************)
NoneValue == [t |-> "None"]

Str(s) == [t |-> "str", v |-> s]

Return(v) == [kind |-> "return", value |-> v]

Raise(e) == [kind |-> "raise", exc |-> e]

\* bool(v) of a value given by its repr
Truthy(v) == v \notin {"None", "False", "''", "0"}

\* d.get(k)
DictGet(d, k) == IF k \in DOMAIN d THEN d[k] ELSE "None"

UPPERCASE ==
    <<"A","B","C","D","E","F","G","H","I","J","K","L","M",
      "N","O","P","Q","R","S","T","U","V","W","X","Y","Z">>

LOWERCASE ==
    <<"a","b","c","d","e","f","g","h","i","j","k","l","m",
      "n","o","p","q","r","s","t","u","v","w","x","y","z">>

\* the lower-case letter of each upper-case letter, and the reverse
TO_LOWER == [c \in {UPPERCASE[i] : i \in 1..26} |->
                LOWERCASE[CHOOSE i \in 1..26 : UPPERCASE[i] = c]]

TO_UPPER == [c \in {LOWERCASE[i] : i \in 1..26} |->
                UPPERCASE[CHOOSE i \in 1..26 : LOWERCASE[i] = c]]

\* str.upper() on one character: only a lower-case letter changes
UpperChar(c) == IF c \in DOMAIN TO_UPPER THEN TO_UPPER[c] ELSE c

\* str.lower() on one character: only an upper-case letter changes
LowerChar(c) == IF c \in DOMAIN TO_LOWER THEN TO_LOWER[c] ELSE c

\* s.upper()
StrUpper(s) == [i \in 1..Len(s) |-> UpperChar(s[i])]

\* s.lower()
StrLower(s) == [i \in 1..Len(s) |-> LowerChar(s[i])]

\* s.replace(old, new) for one-character old and new
StrReplace(s, old, new) == [i \in 1..Len(s) |-> IF s[i] = old THEN new ELSE s[i]]

\* d.get(k, default)
GetOr(d, k, default) == IF k \in DOMAIN d THEN d[k] ELSE default

\* the empty dict {}
EMPTY_DICT == [k \in {} |-> NoneValue]

\* a cased character: str.title() starts a word at a cased character that
\* follows an uncased one
IsCased(c) == c \in DOMAIN TO_UPPER \cup DOMAIN TO_LOWER

\* s.title(): a cased character is upper-cased when it starts the string or
\* follows an uncased character, and lower-cased when it follows a cased one
StrTitle(s) ==
    [i \in 1..Len(s) |->
        IF ~IsCased(s[i]) THEN s[i]
        ELSE IF i > 1 /\ IsCased(s[i - 1]) THEN LowerChar(s[i])
        ELSE UpperChar(s[i])]

\* str(v) of a value written as its Python literal, as an f-string formats it
STR_OF ==
    [v \in {"None", "False", "True", "0", "''", "'text'", "'ABC123'", "'photo of the sign'"} |->
        CASE v = "''" -> ""
          [] v = "'text'" -> "text"
          [] v = "'ABC123'" -> "ABC123"
          [] v = "'photo of the sign'" -> "photo of the sign"
          [] OTHER -> v]

\* a value outside the table is the literal of a dict, which str() leaves as
\* it is
StrOf(v) == IF v \in DOMAIN STR_OF THEN STR_OF[v] ELSE v

\* str(b) of a bool
StrOfBool(b) == IF b THEN "True" ELSE "False"

\* A text is a sequence of pieces; the string it stands for is the
\* concatenation of its pieces.  A piece is a string or a single character.
RECURSIVE Flat(_)
Flat(text) ==
    IF text = <<>> THEN ""
    ELSE IF Len(text) = 1 THEN text[1]
    ELSE LET half == Len(text) \div 2
         IN  Flat(SubSeq(text, 1, half)) \o Flat(SubSeq(text, half + 1, Len(text)))

\* str(xs) of a list of strings without quotes in them: "['a', 'b']"
RECURSIVE ListItemsRepr(_)
ListItemsRepr(xs) ==
    IF xs = <<>> THEN <<>>
    ELSE <<"'", Head(xs), "'">>
         \o (IF Tail(xs) = <<>> THEN <<>> ELSE <<", ">>)
         \o ListItemsRepr(Tail(xs))

ListRepr(xs) == <<"[">> \o ListItemsRepr(xs) \o <<"]">>

\* the elements of a sequence
Range(s) == {s[i] : i \in 1..Len(s)}

(***************************************************************************)
(* The catalogs: class attributes of AppealStrategyAnalyzer and of         *)
(* RegulationDatabase.  The *_KEYS / *_CODES / *_NAMES sequences give the  *)
(* insertion order of the corresponding dict.                              *)
(***************************************************************************)
APPEAL_ANGLE_KEYS ==
    <<"procedural_error", "signage_issues", "meter_malfunction", "emergency_circumstances", "payment_display_issue", "zone_confusion", "first_time_leniency", "disability_accommodation", "time_discrepancy">>

APPEAL_ANGLES ==
      "procedural_error" :> [
        name |-> "Procedural Error",
        description |-> "Citation was issued incorrectly or does not follow proper procedures",
        key_questions |-> <<
            "Was the citation securely attached to your vehicle?",
            "Are all details on the citation accurate (date, time, location, vehicle info)?",
            "Did the officer follow proper procedures?",
            "Is the citation number valid and legible?" >>,
        strength_indicators |-> <<
            "Incorrect vehicle information",
            "Wrong date or time",
            "Citation not properly attached",
            "Missing required information",
            "Officer signature missing" >>,
        required_evidence |-> <<
            <<"P","h","o","t","o","s"," ","o","f"," ","t","h","e"," ","c","i","t","a","t","i",
              "o","n"," ","s","h","o","w","i","n","g"," ","e","r","r","o","r","s">>,
            <<"V","e","h","i","c","l","e"," ","r","e","g","i","s","t","r","a","t","i","o","n",
              " ","s","h","o","w","i","n","g"," ","c","o","r","r","e","c","t"," ","i","n","f",
              "o","r","m","a","t","i","o","n">>,
            <<"P","h","o","t","o","s"," ","s","h","o","w","i","n","g"," ","i","m","p","r","o",
              "p","e","r"," ","a","t","t","a","c","h","m","e","n","t"," ","i","f"," ","a","p",
              "p","l","i","c","a","b","l","e">> >> ]
    @@ "signage_issues" :> [
        name |-> "Inadequate or Confusing Signage",
        description |-> "Parking restrictions were not clearly posted or signs were confusing",
        key_questions |-> <<
            "Were there clear signs indicating the parking restriction?",
            "Were the signs visible and unobstructed?",
            "Were there conflicting signs in the area?",
            "Was the sign text legible and in compliance with local standards?" >>,
        strength_indicators |-> <<
            "No sign visible from parking spot",
            "Sign obstructed by trees/objects",
            "Conflicting information from multiple signs",
            "Faded or illegible signs",
            "Sign not meeting MUTCD standards" >>,
        required_evidence |-> <<
            <<"P","h","o","t","o","s"," ","s","h","o","w","i","n","g"," ","p","a","r","k","i",
              "n","g"," ","s","p","o","t"," ","a","n","d"," ","n","e","a","r","b","y"," ","s",
              "i","g","n","a","g","e">>,
            <<"P","h","o","t","o","s"," ","o","f"," ","a","n","y"," ","o","b","s","t","r","u",
              "c","t","i","o","n","s"," ","o","r"," ","d","a","m","a","g","e","d"," ","s","i",
              "g","n","s">>,
            <<"P","h","o","t","o","s"," ","s","h","o","w","i","n","g"," ","p","e","r","s","p",
              "e","c","t","i","v","e"," ","f","r","o","m"," ","d","r","i","v","e","r","'","s",
              " ","p","o","s","i","t","i","o","n">>,
            <<"M","u","l","t","i","p","l","e"," ","a","n","g","l","e","s"," ","s","h","o","w",
              "i","n","g"," ","s","i","g","n"," ","p","l","a","c","e","m","e","n","t">> >> ]
    @@ "meter_malfunction" :> [
        name |-> "Meter or Payment System Malfunction",
        description |-> "The parking meter or payment system was not working properly",
        key_questions |-> <<
            "Did you attempt to pay for parking?",
            "Was the meter displaying any error messages?",
            "Did you report the malfunction?",
            "Do you have proof of attempted payment?" >>,
        strength_indicators |-> <<
            "Meter displayed 'out of order'",
            "Payment transaction failed but money charged",
            "Receipt showing payment attempt",
            "Multiple users reporting same issue" >>,
        required_evidence |-> <<
            <<"P","h","o","t","o","s"," ","o","f"," ","m","e","t","e","r"," ","s","h","o","w",
              "i","n","g"," ","m","a","l","f","u","n","c","t","i","o","n">>,
            <<"P","a","y","m","e","n","t"," ","r","e","c","e","i","p","t","s"," ","o","r"," ",
              "t","r","a","n","s","a","c","t","i","o","n"," ","r","e","c","o","r","d","s">>,
            <<"C","r","e","d","i","t"," ","c","a","r","d"," ","s","t","a","t","e","m","e","n",
              "t"," ","s","h","o","w","i","n","g"," ","c","h","a","r","g","e">>,
            <<"R","e","p","o","r","t"," ","f","i","l","e","d"," ","a","b","o","u","t"," ","m",
              "e","t","e","r"," ","m","a","l","f","u","n","c","t","i","o","n">> >> ]
    @@ "emergency_circumstances" :> [
        name |-> "Emergency or Extenuating Circumstances",
        description |-> "Parking violation occurred due to an emergency situation",
        key_questions |-> <<
            "What was the nature of the emergency?",
            "Do you have documentation of the emergency?",
            "Was this your first parking violation?",
            "How long was the vehicle parked?" >>,
        strength_indicators |-> <<
            "Medical emergency",
            "Vehicle breakdown",
            "Avoiding accident",
            "Personal safety concern",
            "Family emergency" >>,
        required_evidence |-> <<
            <<"M","e","d","i","c","a","l"," ","r","e","c","o","r","d","s"," ","o","r"," ","d",
              "o","c","t","o","r","'","s"," ","n","o","t","e">>,
            <<"P","o","l","i","c","e"," ","r","e","p","o","r","t"," ","i","f"," ","a","p","p",
              "l","i","c","a","b","l","e">>,
            <<"T","o","w"," ","t","r","u","c","k"," ","r","e","c","e","i","p","t"," ","o","r",
              " ","m","e","c","h","a","n","i","c"," ","r","e","p","o","r","t">>,
            <<"P","h","o","t","o","s"," ","s","h","o","w","i","n","g"," ","v","e","h","i","c",
              "l","e"," ","c","o","n","d","i","t","i","o","n">>,
            <<"W","i","t","n","e","s","s"," ","s","t","a","t","e","m","e","n","t","s"," ","i",
              "f"," ","a","v","a","i","l","a","b","l","e">> >> ]
    @@ "payment_display_issue" :> [
        name |-> "Valid Payment Not Displayed",
        description |-> "Payment was made but receipt was not properly displayed",
        key_questions |-> <<
            "Did you pay for parking before the citation was issued?",
            "Do you have the parking receipt?",
            "Why was the receipt not displayed?",
            "What time was payment made vs. citation issued?" >>,
        strength_indicators |-> <<
            "Receipt timestamp before citation time",
            "Payment for correct zone/meter",
            "Receipt fell inside vehicle",
            "Wind blew receipt away" >>,
        required_evidence |-> <<
            <<"O","r","i","g","i","n","a","l"," ","p","a","r","k","i","n","g"," ","r","e","c",
              "e","i","p","t">>,
            <<"C","r","e","d","i","t"," ","c","a","r","d"," ","o","r"," ","a","p","p"," ","p",
              "a","y","m","e","n","t"," ","c","o","n","f","i","r","m","a","t","i","o","n">>,
            <<"P","h","o","t","o","s"," ","o","f"," ","r","e","c","e","i","p","t"," ","w","i",
              "t","h"," ","t","i","m","e","s","t","a","m","p">>,
            <<"T","r","a","n","s","a","c","t","i","o","n"," ","r","e","c","o","r","d","s"," ",
              "f","r","o","m"," ","p","a","r","k","i","n","g"," ","a","p","p">> >> ]
    @@ "zone_confusion" :> [
        name |-> "Unclear Zone or Time Restrictions",
        description |-> "Zone boundaries or time restrictions were unclear or ambiguous",
        key_questions |-> <<
            "Were zone boundaries clearly marked?",
            "Were time restrictions clearly posted?",
            "Were there multiple overlapping zones?",
            "Was the zone map accurate?" >>,
        strength_indicators |-> <<
            "No clear zone boundary markings",
            "Conflicting zone signs",
            "Time restriction periods unclear",
            "Street cleaning schedule ambiguous" >>,
        required_evidence |-> <<
            <<"P","h","o","t","o","s"," ","s","h","o","w","i","n","g"," ","z","o","n","e"," ",
              "m","a","r","k","i","n","g","s"," ","(","o","r"," ","l","a","c","k"," ","t","h",
              "e","r","e","o","f",")">>,
            <<"P","h","o","t","o","s"," ","o","f"," ","r","e","l","e","v","a","n","t"," ","s",
              "i","g","n","a","g","e">>,
            <<"S","c","r","e","e","n","s","h","o","t"," ","o","f"," ","o","f","f","i","c","i",
              "a","l"," ","p","a","r","k","i","n","g"," ","m","a","p"," ","i","f"," ","a","p",
              "p","l","i","c","a","b","l","e">>,
            <<"P","h","o","t","o","s"," ","s","h","o","w","i","n","g"," ","p","e","r","s","p",
              "e","c","t","i","v","e"," ","o","f"," ","p","a","r","k","i","n","g"," ","l","o",
              "c","a","t","i","o","n">> >> ]
    @@ "first_time_leniency" :> [
        name |-> "First-Time Violation / Good Record",
        description |-> "Request for leniency based on clean parking record",
        key_questions |-> <<
            "Is this your first parking violation in this jurisdiction?",
            "How long have you been parking in this area?",
            "Do you have a generally good compliance record?",
            "Was this an honest mistake?" >>,
        strength_indicators |-> <<
            "No prior parking citations",
            "Long-time resident or worker in area",
            "Regular parker with good history",
            "Simple misunderstanding of rules" >>,
        required_evidence |-> <<
            <<"D","r","i","v","i","n","g"," ","r","e","c","o","r","d"," ","o","r"," ","D","M",
              "V"," ","p","r","i","n","t","o","u","t">>,
            <<"S","t","a","t","e","m","e","n","t"," ","o","f"," ","g","o","o","d"," ","p","a",
              "r","k","i","n","g"," ","h","i","s","t","o","r","y">>,
            <<"P","r","o","o","f"," ","o","f"," ","r","e","s","i","d","e","n","c","y"," ","o",
              "r"," ","e","m","p","l","o","y","m","e","n","t"," ","i","n"," ","a","r","e","a">>,
            <<"C","h","a","r","a","c","t","e","r"," ","r","e","f","e","r","e","n","c","e"," ",
              "i","f"," ","a","p","p","l","i","c","a","b","l","e">> >> ]
    @@ "disability_accommodation" :> [
        name |-> "Disability-Related Accommodation",
        description |-> "Citation related to disability parking or accommodation needs",
        key_questions |-> <<
            "Do you have a valid disability placard or license plate?",
            "Was the placard properly displayed?",
            "Was the accessible parking space properly marked?",
            "Were you denied reasonable accommodation?" >>,
        strength_indicators |-> <<
            "Valid disability placard not recognized",
            "Accessible space markings faded or unclear",
            "No accessible parking available",
            "Time limit insufficient for disability needs" >>,
        required_evidence |-> <<
            <<"C","o","p","y"," ","o","f"," ","d","i","s","a","b","i","l","i","t","y"," ","p",
              "l","a","c","a","r","d"," ","d","o","c","u","m","e","n","t","a","t","i","o","n">>,
            <<"P","h","o","t","o","s"," ","s","h","o","w","i","n","g"," ","p","l","a","c","a",
              "r","d"," ","d","i","s","p","l","a","y","e","d">>,
            <<"P","h","o","t","o","s"," ","o","f"," ","p","a","r","k","i","n","g"," ","s","p",
              "a","c","e"," ","m","a","r","k","i","n","g","s">>,
            <<"M","e","d","i","c","a","l"," ","d","o","c","u","m","e","n","t","a","t","i","o",
              "n"," ","i","f"," ","r","e","l","e","v","a","n","t">> >> ]
    @@ "time_discrepancy" :> [
        name |-> "Time Discrepancy or Error",
        description |-> "Citation time is incorrect or conflicts with actual circumstances",
        key_questions |-> <<
            "What time did you park?",
            "What time did you leave?",
            "Do you have proof of your timeline?",
            "What time does the citation show?" >>,
        strength_indicators |-> <<
            "Citation time impossible or implausible",
            "Proof of being elsewhere at citation time",
            "Multiple citations same time different locations",
            "Meter time conflicts with citation time" >>,
        required_evidence |-> <<
            <<"T","i","m","e","s","t","a","m","p","e","d"," ","p","h","o","t","o","s"," ","o",
              "r"," ","v","i","d","e","o","s">>,
            <<"R","e","c","e","i","p","t"," ","o","r"," ","p","a","r","k","i","n","g"," ","p",
              "a","y","m","e","n","t"," ","w","i","t","h"," ","t","i","m","e","s","t","a","m",
              "p">>,
            <<"G","P","S"," ","o","r"," ","p","h","o","n","e"," ","l","o","c","a","t","i","o",
              "n"," ","d","a","t","a">>,
            <<"W","i","t","n","e","s","s"," ","s","t","a","t","e","m","e","n","t","s">>,
            <<"B","u","s","i","n","e","s","s"," ","r","e","c","e","i","p","t","s"," ","s","h",
              "o","w","i","n","g"," ","l","o","c","a","t","i","o","n"," ","a","t"," ","c","i",
              "t","a","t","i","o","n"," ","t","i","m","e">> >> ]

COMMON_APPEAL_GROUNDS ==
    << "unclear_signage",
        "emergency_circumstances",
        "vehicle_malfunction",
        "medical_emergency",
        "incorrect_citation_details",
        "meter_malfunction",
        "conflicting_signs",
        "first_time_offense",
        "extenuating_circumstances",
        "procedural_errors",
        "incorrect_vehicle_info",
        "paid_but_not_displayed",
        "time_discrepancy",
        "zone_confusion",
        "disability_accommodation" >>

STATE_CODES ==
    <<<<"C","A">>, <<"N","Y">>, <<"T","X">>, <<"F","L">>, <<"I","L">>>>

STATE_REGULATIONS ==
      <<"C","A">> :> [
        name |-> "California",
        statute_limitations_days |-> 21,
        common_defenses |-> <<
            "CVC 22507.8 - Disabled parking violations require proper investigation",
            "CVC 40215 - Notice of parking violation must be securely attached",
            "Signage must comply with Manual on Uniform Traffic Control Devices (MUTCD)" >>,
        appeal_address_format |-> "City parking authority or designated appeals board" ]
    @@ <<"N","Y">> :> [
        name |-> "New York",
        statute_limitations_days |-> 30,
        common_defenses |-> <<
            "NYC Traffic Rules require clear and visible signage",
            "Broken meters - proof required within 7 days",
            "Emergency vehicles - documentation required" >>,
        appeal_address_format |-> "Department of Finance, Parking Violations Bureau" ]
    @@ <<"T","X">> :> [
        name |-> "Texas",
        statute_limitations_days |-> 21,
        common_defenses |-> <<
            "Transportation Code 681.0101 - Proper notice requirements",
            "Sign visibility and compliance with state standards",
            "Meter malfunction - immediate reporting helps case" >>,
        appeal_address_format |-> "Municipal court or designated hearing officer" ]
    @@ <<"F","L">> :> [
        name |-> "Florida",
        statute_limitations_days |-> 30,
        common_defenses |-> <<
            "F.S. 316.1967 - Parking regulations must be clearly posted",
            "Meter violations - malfunction must be documented",
            "Emergency circumstances with supporting documentation" >>,
        appeal_address_format |-> "City clerk or parking violations bureau" ]
    @@ <<"I","L">> :> [
        name |-> "Illinois",
        statute_limitations_days |-> 21,
        common_defenses |-> <<
            "Chicago Municipal Code - signage requirements",
            "Meter payment issues - transaction records",
            "Medical emergency documentation" >>,
        appeal_address_format |-> "Department of Administrative Hearings" ]

CITY_NAMES ==
    <<"San Francisco", "Los Angeles", "New York City", "Chicago", "Houston", "Miami">>

CITY_REGULATIONS ==
      "San Francisco" :> [
        state |-> <<"C","A">>,
        specific_rules |-> <<
            "SFMTA requires photos of signage for signage-related appeals",
            "Street cleaning violations - check SFMTA calendar",
            "Residential permit zones - proof of residency required" >>,
        online_appeal |-> TRUE,
        fee_waiver_available |-> TRUE ]
    @@ "Los Angeles" :> [
        state |-> <<"C","A">>,
        specific_rules |-> <<
            "LADOT handles parking enforcement",
            "First-time violators may get reduced fines",
            "Photo evidence highly recommended" >>,
        online_appeal |-> TRUE,
        fee_waiver_available |-> FALSE ]
    @@ "New York City" :> [
        state |-> <<"N","Y">>,
        specific_rules |-> <<
            "Online appeals through NYC.gov required for most violations",
            "Hearing requests must be filed within 30 days",
            "Evidence upload system available online" >>,
        online_appeal |-> TRUE,
        fee_waiver_available |-> FALSE ]
    @@ "Chicago" :> [
        state |-> <<"I","L">>,
        specific_rules |-> <<
            "City of Chicago parking ticket portal",
            "Early payment discount available (not applicable if appealing)",
            "Administrative hearing process" >>,
        online_appeal |-> TRUE,
        fee_waiver_available |-> FALSE ]
    @@ "Houston" :> [
        state |-> <<"T","X">>,
        specific_rules |-> <<
            "Houston Municipal Courts handle appeals",
            "Written statement required for appeal",
            "Court appearance may be required for some violations" >>,
        online_appeal |-> FALSE,
        fee_waiver_available |-> TRUE ]
    @@ "Miami" :> [
        state |-> <<"F","L">>,
        specific_rules |-> <<
            "Miami Parking Authority handles enforcement",
            "Online contest system available",
            "Supporting documents must be uploaded or mailed" >>,
        online_appeal |-> TRUE,
        fee_waiver_available |-> FALSE ]

(***************************************************************************)
(* State.                                                                  *)
(*   pc, op, args, ret: one caller; pc is "idle" between calls and         *)
(*     "returned" when a call has completed; op, args and ret are the      *)
(*     operation called, its arguments and its outcome.                    *)
(*   requests: the calls of the external generation capability             *)
(*     (model.generate_content) made during the call, in order, each with  *)
(*     the prompt sent and the outcome received.                           *)
(*   appeal_angles, state_regulations, city_regulations,                   *)
(*     common_appeal_grounds: the objects held by the class attributes     *)
(*     APPEAL_ANGLES, STATE_REGULATIONS, CITY_REGULATIONS and              *)
(*     COMMON_APPEAL_GROUNDS.  They are ordinary dicts and a list: the     *)
(*     lookups return them, or the records in them, without copying.       *)
(*   frames: the callers that run at the same time, one frame per caller:  *)
(*     the position in the operation it is in, the arguments and the       *)
(*     local variables of that call, and its outcome.                      *)
(*   workflow: the run of AppealWorkflow.run_complete_workflow: the step   *)
(*     it is at, the answers of the user, all_data and what was shown and  *)
(*     written so far.                                                     *)
(***************************************************************************)
VARIABLES pc, op, args, ret, requests,
          appeal_angles, state_regulations, city_regulations, common_appeal_grounds,
          frames, workflow

(***************************************************************************)
(* AppealStrategyAnalyzer                                                  *)
(***************************************************************************)
\* get_all_angles: the catalog itself
get_all_angles == appeal_angles

\* a variant of get_angle that looks the angle up by its display name
get_angle_by_name(angle_key) ==
    IF \E k \in DOMAIN appeal_angles : appeal_angles[k].name = angle_key
    THEN appeal_angles[CHOOSE k \in DOMAIN appeal_angles : appeal_angles[k].name = angle_key]
    ELSE NoneValue

\* get_angle: APPEAL_ANGLES.get(angle_key)
get_angle(angle_key) ==
    IF angle_key \in DOMAIN appeal_angles THEN appeal_angles[angle_key] ELSE NoneValue

\* a variant of AppendIf that puts the key at the front of the list
AppendIf_insert_front(relevant_angles, cond, key) ==
    IF cond THEN <<key>> \o relevant_angles ELSE relevant_angles

\* one "if <facts>: relevant_angles.append(key)" statement of analyze_situation
AppendIf(relevant_angles, cond, key) ==
    IF cond THEN Append(relevant_angles, key) ELSE relevant_angles

\* the nine independent checks of analyze_situation, in source order:
\* relevant_angles before the default is applied
SpecificAngles(citation_details) ==
    LET get(k) == Truthy(DictGet(citation_details, k))
        a0 == <<>>
        a1 == AppendIf(a0, get("has_errors") \/ get("missing_info")
                            \/ get("incorrect_vehicle_info"), "procedural_error")
        a2 == AppendIf(a1, get("unclear_signage") \/ get("no_visible_signs")
                            \/ get("conflicting_signs"), "signage_issues")
        a3 == AppendIf(a2, get("meter_malfunction") \/ get("payment_failed")
                            \/ get("paid_but_cited"), "meter_malfunction")
        a4 == AppendIf(a3, get("emergency_situation"), "emergency_circumstances")
        a5 == AppendIf(a4, get("paid_not_displayed") \/ get("receipt_not_visible"),
                       "payment_display_issue")
        a6 == AppendIf(a5, get("unclear_zone") \/ get("zone_boundary_unclear"),
                       "zone_confusion")
        a7 == AppendIf(a6, get("first_violation"), "first_time_leniency")
        a8 == AppendIf(a7, get("disability_related") \/ get("has_disability_placard"),
                       "disability_accommodation")
        a9 == AppendIf(a8, get("time_incorrect") \/ get("timeline_conflicts"),
                       "time_discrepancy")
    IN  a9

\* a variant of analyze_situation without the default set
analyze_situation_no_default(citation_details) == SpecificAngles(citation_details)

\* a variant of analyze_situation that adds the default set to the angles
\* found instead of returning it only when none was found
analyze_situation_add_default(citation_details) ==
    SpecificAngles(citation_details)
    \o <<"procedural_error", "signage_issues", "first_time_leniency">>

\* a variant of analyze_situation that, when no check applies, takes the
\* questionnaire's paid_for_parking answer as a payment display issue
analyze_situation_reads_paid_for_parking(citation_details) ==
    LET relevant_angles == SpecificAngles(citation_details)
    IN  IF relevant_angles # <<>> THEN relevant_angles
        ELSE IF Truthy(DictGet(citation_details, "paid_for_parking"))
        THEN <<"payment_display_issue">>
        ELSE <<"procedural_error", "signage_issues", "first_time_leniency">>

\* a variant of analyze_situation whose default set names the third angle
\* after the fact first_violation
analyze_situation_default_by_fact(citation_details) ==
    LET relevant_angles == SpecificAngles(citation_details)
    IN  IF relevant_angles = <<>>
        THEN <<"procedural_error", "signage_issues", "first_violation">>
        ELSE relevant_angles

\* analyze_situation: the checks, then the default set when none applied
analyze_situation(citation_details) ==
    LET relevant_angles == SpecificAngles(citation_details)
    IN  IF relevant_angles = <<>>
        THEN <<"procedural_error", "signage_issues", "first_time_leniency">>
        ELSE relevant_angles

\* evidence_item.lower().replace(" ", "_")
DeriveKey(evidence_item) == StrReplace(StrLower(evidence_item), " ", "_")

\* every required-evidence item of the catalog
REQUIRED_EVIDENCE_ITEMS ==
    UNION {Range(APPEAL_ANGLES[k].required_evidence) : k \in DOMAIN APPEAL_ANGLES}

\* the key under which get_angle_strength looks each item of the catalog up
\* (the items of the catalog are the only ones it derives a key from)
EVIDENCE_KEYS == [item \in REQUIRED_EVIDENCE_ITEMS |-> DeriveKey(item)]

\* the key under which get_angle_strength looks an evidence item up
EvidenceKey(evidence_item) == EVIDENCE_KEYS[evidence_item]

\* the loop of get_angle_strength: evidence_count after the first n items
RECURSIVE CountEvidence(_, _, _)
CountEvidence(required_evidence, evidence, n) ==
    IF n = 0 THEN 0
    ELSE CountEvidence(required_evidence, evidence, n - 1)
         + (IF Truthy(DictGet(evidence, EvidenceKey(required_evidence[n]))) THEN 1 ELSE 0)

\* a variant of StrengthBand whose moderate band excludes its lower bound
StrengthBand_exclusive_bound(evidence_count, total) ==
    IF total # 0 /\ 10 * evidence_count >= 7 * total THEN "strong"
    ELSE IF total # 0 /\ 10 * evidence_count > 4 * total THEN "moderate"
    ELSE "weak"

\* the band of evidence_ratio = evidence_count / total (0 when total = 0).
\* The float quotient of two small integers compares with the literals 0.7
\* and 0.4 exactly as the rational does, so the comparison is carried out
\* on integers: count/total >= 0.7 iff 10*count >= 7*total.
StrengthBand(evidence_count, total) ==
    IF total # 0 /\ 10 * evidence_count >= 7 * total THEN "strong"
    ELSE IF total # 0 /\ 10 * evidence_count >= 4 * total THEN "moderate"
    ELSE "weak"

\* a variant of get_angle_strength without the "if not angle" guard: reading
\* required_evidence of None is an AttributeError
get_angle_strength_no_guard(angle_key, evidence) ==
    LET angle == get_angle(angle_key)
    IN  IF angle = NoneValue
        THEN Raise("AttributeError")
        ELSE Return(StrengthBand(
                 CountEvidence(angle.required_evidence, evidence,
                               Len(angle.required_evidence)),
                 Len(angle.required_evidence)))

\* a variant of get_angle_strength that divides by the number of entries of
\* the evidence set instead of the number of required items
get_angle_strength_ratio_of_supplied(angle_key, evidence) ==
    LET angle == get_angle(angle_key)
    IN  IF angle = NoneValue
        THEN Return("weak")
        ELSE Return(StrengthBand(
                 CountEvidence(angle.required_evidence, evidence,
                               Len(angle.required_evidence)),
                 Cardinality(DOMAIN evidence)))

\* get_angle_strength
get_angle_strength(angle_key, evidence) ==
    LET angle == get_angle(angle_key)
    IN  IF angle = NoneValue
        THEN Return("weak")
        ELSE Return(StrengthBand(
                 CountEvidence(angle.required_evidence, evidence,
                               Len(angle.required_evidence)),
                 Len(angle.required_evidence)))

(***************************************************************************)
(* RegulationDatabase                                                      *)
(***************************************************************************)
\* a variant of UpperOf that leaves the case of the code as passed
UpperOf_case_kept(state_code) ==
    IF state_code.t = "str" THEN Return(state_code.v)
    ELSE Raise("AttributeError")

\* state_code.upper(): an AttributeError when state_code is None
UpperOf(state_code) ==
    IF state_code.t = "str" THEN Return(StrUpper(state_code.v))
    ELSE Raise("AttributeError")

\* get_state_info: STATE_REGULATIONS.get(state_code.upper())
get_state_info(state_code) ==
    LET up == UpperOf(state_code)
    IN  IF up.kind = "raise" THEN up
        ELSE IF up.value \in DOMAIN state_regulations
             THEN Return(state_regulations[up.value])
             ELSE Return(NoneValue)

\* get_city_info: CITY_REGULATIONS.get(city_name)
get_city_info(city_name) ==
    IF city_name.t = "str" /\ city_name.v \in DOMAIN city_regulations
    THEN Return(city_regulations[city_name.v])
    ELSE Return(NoneValue)

\* a variant of get_combined_info that does not compare the city's state with
\* the state passed
get_combined_info_any_state(city_name, state_code) ==
    LET state_info == get_state_info(state_code)
        info == [state |-> state_info.value, city |-> NoneValue,
                 available_grounds |-> common_appeal_grounds]
        city_info == get_city_info(city_name).value
    IN  IF state_info.kind = "raise" THEN state_info
        ELSE IF city_name.t = "str" /\ city_name.v # ""
                /\ city_info # NoneValue
             THEN Return([info EXCEPT !.city = city_info])
             ELSE Return(info)

\* a variant of get_combined_info that compares the city's state with the
\* code as passed
get_combined_info_code_as_passed(city_name, state_code) ==
    LET state_info == get_state_info(state_code)
        info == [state |-> state_info.value, city |-> NoneValue,
                 available_grounds |-> common_appeal_grounds]
        city_info == get_city_info(city_name).value
    IN  IF state_info.kind = "raise" THEN state_info
        ELSE IF city_name.t = "str" /\ city_name.v # ""
                /\ city_info # NoneValue
                /\ city_info.state = state_code.v
             THEN Return([info EXCEPT !.city = city_info])
             ELSE Return(info)

\* get_combined_info
get_combined_info(city_name, state_code) ==
    LET state_info == get_state_info(state_code)
        info == [state |-> state_info.value, city |-> NoneValue,
                 available_grounds |-> common_appeal_grounds]
        city_info == get_city_info(city_name).value
    IN  IF state_info.kind = "raise" THEN state_info
        ELSE IF city_name.t = "str" /\ city_name.v # ""
                /\ city_info # NoneValue
                /\ city_info.state = UpperOf(state_code).value
             THEN Return([info EXCEPT !.city = city_info])
             ELSE Return(info)

\* get_all_states: list(STATE_REGULATIONS.keys())
get_all_states == Return(STATE_CODES)

\* a variant of CitiesWithState that puts each matching city at the front
RECURSIVE CitiesWithState_front(_, _)
CitiesWithState_front(state_code, n) ==
    IF n = 0 THEN <<>>
    ELSE LET city == CITY_NAMES[n]
             rest == CitiesWithState_front(state_code, n - 1)
         IN  IF city_regulations[city].state = state_code
             THEN <<city>> \o rest ELSE rest

\* the list comprehension of get_cities_for_state over the first n cities
RECURSIVE CitiesWithState(_, _)
CitiesWithState(state_code, n) ==
    IF n = 0 THEN <<>>
    ELSE LET city == CITY_NAMES[n]
             rest == CitiesWithState(state_code, n - 1)
         IN  IF city_regulations[city].state = state_code
             THEN Append(rest, city) ELSE rest

\* get_cities_for_state
get_cities_for_state(state_code) ==
    LET up == UpperOf(state_code)
    IN  IF up.kind = "raise" THEN up
        ELSE Return(CitiesWithState(up.value, Len(CITY_NAMES)))

(***************************************************************************)
(* AppealGenerator                                                         *)
(*                                                                         *)
(* citation_details and evidence are dicts in insertion order: sequences   *)
(* of <<key, value>> with distinct keys, the key a tuple of characters and *)
(* the value a Python literal.  location_info is a dict with the keys      *)
(* "state" and "city", each None or a record of the catalogs.  A prompt    *)
(* and a generated text are texts.  An outcome of model.generate_content   *)
(* is Return(text), the response's text, or Raise(description), an         *)
(* exception whose str() is description.                                   *)
(***************************************************************************)
\* bool(s) of an optional string: None and "" are falsy
StrTruthy(s) == s # NoneValue /\ s.v # ""

\* a variant of __init__ in which the environment variable comes first
__init___environment_first(api_key, environment_key) ==
    LET key == IF StrTruthy(environment_key) THEN environment_key ELSE api_key
    IN  IF ~StrTruthy(key)
        THEN [result |-> Raise("ValueError"), configured |-> <<>>]
        ELSE [result |-> Return([api_key |-> key, model |-> "gemini-exp-1206"]),
              configured |-> <<[api_key |-> key]>>]

\* AppealGenerator.__init__ with the value environment_key of the variable
\* GOOGLE_GENERATIVE_AI_API_KEY (None when it is not set): the generator
\* built, or the ValueError, and the calls of genai.configure made
__init__(api_key, environment_key) ==
    LET key == IF StrTruthy(api_key) THEN api_key ELSE environment_key
    IN  IF ~StrTruthy(key)
        THEN [result |-> Raise("ValueError"), configured |-> <<>>]
        ELSE [result |-> Return([api_key |-> key, model |-> "gemini-exp-1206"]),
              configured |-> <<[api_key |-> key]>>]

\* bool(d) of a dict or None
DictTruthy(d) == d # NoneValue /\ DOMAIN d # {}

\* the items of a dict of facts or evidence as a formatter reads them: the
\* key, bool(value) and the text of f"{value}"
DictItems(data) ==
    [i \in 1..Len(data) |->
        [key |-> data[i][1], truthy |-> Truthy(data[i][2]), text |-> <<StrOf(data[i][2])>>]]

\* the items of a state record, in the order of its keys in the catalog
StateItems(state_info) ==
    IF ~DictTruthy(state_info) THEN <<>>
    ELSE (IF "name" \in DOMAIN state_info
          THEN <<[key |-> <<"n", "a", "m", "e">>, truthy |-> state_info.name # "",
                  text |-> <<state_info.name>>]>>
          ELSE <<>>)
      \o (IF "statute_limitations_days" \in DOMAIN state_info
          THEN <<[key |-> <<"s", "t", "a", "t", "u", "t", "e", "_", "l", "i", "m", "i", "t", "a", "t", "i", "o", "n", "s", "_", "d", "a", "y", "s">>,
                  truthy |-> state_info.statute_limitations_days # 0,
                  text |-> <<ToString(state_info.statute_limitations_days)>>]>>
          ELSE <<>>)
      \o (IF "common_defenses" \in DOMAIN state_info
          THEN <<[key |-> <<"c", "o", "m", "m", "o", "n", "_", "d", "e", "f", "e", "n", "s", "e", "s">>,
                  truthy |-> state_info.common_defenses # <<>>,
                  text |-> ListRepr(state_info.common_defenses)]>>
          ELSE <<>>)
      \o (IF "appeal_address_format" \in DOMAIN state_info
          THEN <<[key |-> <<"a", "p", "p", "e", "a", "l", "_", "a", "d", "d", "r", "e", "s", "s", "_", "f", "o", "r", "m", "a", "t">>,
                  truthy |-> state_info.appeal_address_format # "",
                  text |-> <<state_info.appeal_address_format>>]>>
          ELSE <<>>)

\* f"- {key.replace('_', ' ').title()}: {value}\n"
EntryLine(item) ==
    <<"- ">> \o StrTitle(StrReplace(item.key, "_", " ")) \o <<": ">> \o item.text \o <<"\n">>

\* a variant of EntryLines that writes every entry, whatever its value
RECURSIVE EntryLines_every_entry(_)
EntryLines_every_entry(items) ==
    IF items = <<>> THEN <<>>
    ELSE EntryLine(Head(items)) \o EntryLines_every_entry(Tail(items))

\* for key, value in data.items(): if value: <the entry's line>
RECURSIVE EntryLines(_)
EntryLines(items) ==
    IF items = <<>> THEN <<>>
    ELSE (IF Head(items).truthy THEN EntryLine(Head(items)) ELSE <<>>)
         \o EntryLines(Tail(items))

\* for x in xs: f"- {x}\n"
RECURSIVE BulletLines(_)
BulletLines(xs) ==
    IF xs = <<>> THEN <<>>
    ELSE <<"- ", Head(xs), "\n">> \o BulletLines(Tail(xs))

\* a variant of _format_dict without the final 'or "None provided"'
_format_dict_no_fallback(items) ==
    IF items = <<>> THEN <<"None provided">> ELSE EntryLines(items)

\* _format_dict, on the items of its argument (none for None and for {})
_format_dict(items) ==
    IF items = <<>> THEN <<"None provided">>
    ELSE LET formatted == EntryLines(items)
         IN  IF formatted = <<>> THEN <<"None provided">> ELSE formatted

\* the literal parts of the prompt of _build_appeal_prompt
APPEAL_PROMPT_HEAD ==
    "You are an expert legal assistant specializing in parking citation appeals.\nYour task is to write a compelling, professional, and legally sound appeal letter.\n\nAPPEAL STRATEGY: "

APPEAL_PROMPT_STRUCTURE ==
    "\n\nREQUIRED STRUCTURE:\n1. Opening: Brief, professional greeting and statement of purpose\n2. Citation Information: Reference the citation number, date, location\n3. Main Argument: Present the "

APPEAL_PROMPT_TAIL ==
    " case clearly and persuasively\n4. Supporting Evidence: Reference all available evidence that supports this angle\n5. Legal/Regulatory Basis: Cite relevant regulations from the jurisdiction\n6. Conclusion: Respectful request for dismissal or reduction\n7. Closing: Professional sign-off\n\nTONE REQUIREMENTS:\n- Professional and respectful\n- Factual and objective\n- Confident but not aggressive\n- Empathetic where appropriate\n- Legally informed\n\nIMPORTANT GUIDELINES:\n- Do NOT fabricate facts or evidence not provided\n- Cite specific regulations when applicable\n- Keep the letter concise (300-500 words ideal)\n- Use formal business letter format\n- Be specific about dates, times, and locations\n- Request specific relief (dismissal or reduction of fine)\n\nGenerate the appeal letter now:"

\* the state part of _build_appeal_prompt (lines 111-117)
AppealPromptState(state_info) ==
    IF ~DictTruthy(state_info) THEN <<>>
    ELSE <<"State: ", GetOr(state_info, "name", "Unknown"), "\n",
           "Appeal Deadline: ",
           (IF "statute_limitations_days" \in DOMAIN state_info
            THEN ToString(state_info.statute_limitations_days) ELSE "Unknown"),
           " days from citation\n">>
         \o (IF GetOr(state_info, "common_defenses", <<>>) # <<>>
             THEN <<"\nRelevant State Regulations:\n">>
                  \o BulletLines(state_info.common_defenses)
             ELSE <<>>)

\* the city part of _build_appeal_prompt (lines 119-124)
AppealPromptCity(city_info) ==
    IF ~DictTruthy(city_info) THEN <<>>
    ELSE <<"\nCity-Specific Information:\n">>
         \o (IF GetOr(city_info, "specific_rules", <<>>) # <<>>
             THEN BulletLines(city_info.specific_rules) ELSE <<>>)
         \o <<"Online Appeal Available: ",
              (IF "online_appeal" \in DOMAIN city_info
               THEN StrOfBool(city_info.online_appeal) ELSE "Unknown"),
              "\n">>

\* _build_appeal_prompt
_build_appeal_prompt(citation_details, location_info, angle, evidence) ==
    LET state_info == GetOr(location_info, "state", EMPTY_DICT)
        city_info == GetOr(location_info, "city", EMPTY_DICT)
    IN  <<APPEAL_PROMPT_HEAD, angle.name, "\nSTRATEGY DESCRIPTION: ", angle.description,
          "\n\nCITATION DETAILS:\n">>
        \o EntryLines(DictItems(citation_details))
        \o <<"\n\nJURISDICTION INFORMATION:\n">>
        \o AppealPromptState(state_info)
        \o AppealPromptCity(city_info)
        \o <<"\n\nAVAILABLE EVIDENCE:\n">>
        \o EntryLines(DictItems(evidence))
        \o <<"\n\nKEY POINTS FOR THIS APPEAL ANGLE:\n">>
        \o BulletLines(angle.strength_indicators)
        \o <<APPEAL_PROMPT_STRUCTURE, angle.name, APPEAL_PROMPT_TAIL>>

\* the request made of the generation capability and the outcome it gave
Request(prompt, outcome) == [prompt |-> prompt, outcome |-> outcome]

\* _generate_single_angle_appeal, after the prompt is built: response.text,
\* or the text of the except branch
_generate_single_angle_appeal(outcome) ==
    IF outcome.kind = "return" THEN outcome.value
    ELSE <<"Error generating appeal: ", outcome.exc>>

\* a variant of MultiAngleLoop that keeps the first text of an angle
RECURSIVE MultiAngleLoop_first_kept(_, _, _, _, _, _, _)
MultiAngleLoop_first_kept(citation_details, location_info, selected_angles, evidence, outcomes, i, acc) ==
    IF i > Len(selected_angles) THEN acc
    ELSE LET angle == get_angle(selected_angles[i])
         IN  IF angle = NoneValue
             THEN MultiAngleLoop_first_kept(citation_details, location_info,
                                            selected_angles, evidence, outcomes, i + 1, acc)
             ELSE LET prompt == _build_appeal_prompt(citation_details, location_info,
                                                     angle, evidence)
                      appeal_text == _generate_single_angle_appeal(outcomes[i])
                  IN  MultiAngleLoop_first_kept(citation_details, location_info,
                          selected_angles, evidence, outcomes, i + 1,
                          [appeals |-> acc.appeals @@ (angle.name :> appeal_text),
                           requests |-> Append(acc.requests, Request(prompt, outcomes[i]))])

\* the loop of generate_multi_angle_appeal from the i-th key on; acc holds the
\* appeals dict and the requests made so far; outcomes[i] is the outcome of
\* the generation call made for the i-th key, if one is made
RECURSIVE MultiAngleLoop(_, _, _, _, _, _, _)
MultiAngleLoop(citation_details, location_info, selected_angles, evidence, outcomes, i, acc) ==
    IF i > Len(selected_angles) THEN acc
    ELSE LET angle == get_angle(selected_angles[i])
         IN  IF angle = NoneValue
             THEN MultiAngleLoop(citation_details, location_info, selected_angles,
                                 evidence, outcomes, i + 1, acc)
             ELSE LET prompt == _build_appeal_prompt(citation_details, location_info,
                                                     angle, evidence)
                      appeal_text == _generate_single_angle_appeal(outcomes[i])
                  IN  MultiAngleLoop(citation_details, location_info, selected_angles,
                          evidence, outcomes, i + 1,
                          [appeals |-> (angle.name :> appeal_text) @@ acc.appeals,
                           requests |-> Append(acc.requests, Request(prompt, outcomes[i]))])

\* a variant of generate_multi_angle_appeal that returns after the first key
generate_multi_angle_appeal_first_only(citation_details, location_info, selected_angles, evidence, outcomes) ==
    LET done == MultiAngleLoop(citation_details, location_info,
                               SubSeq(selected_angles, 1,
                                      IF selected_angles = <<>> THEN 0 ELSE 1),
                               evidence, outcomes, 1,
                               [appeals |-> EMPTY_DICT, requests |-> <<>>])
    IN  [result |-> Return(done.appeals), requests |-> done.requests]

\* generate_multi_angle_appeal: the appeals dict and the requests made
generate_multi_angle_appeal(citation_details, location_info, selected_angles, evidence, outcomes) ==
    LET done == MultiAngleLoop(citation_details, location_info, selected_angles,
                               evidence, outcomes, 1,
                               [appeals |-> EMPTY_DICT, requests |-> <<>>])
    IN  [result |-> Return(done.appeals), requests |-> done.requests]

\* the literal parts of the prompt of analyze_citation_strength
ANALYSIS_PROMPT_HEAD ==
    "You are a parking citation appeal expert. Analyze this situation and provide\na brief assessment of the likelihood of a successful appeal.\n\nCITATION DETAILS:\n"

ANALYSIS_PROMPT_TAIL ==
    "\n\nProvide a concise analysis including:\n1. Overall appeal strength (Strong/Moderate/Weak)\n2. Best appeal angles to pursue (top 2-3)\n3. Key factors supporting the appeal\n4. Potential weaknesses to address\n5. Recommended next steps\n\nKeep the analysis under 300 words."

\* a variant of analyze_citation_strength that returns the error description
\* as the analysis
analyze_citation_strength_error_as_analysis(citation_details, location_info, evidence, outcome) ==
    LET prompt == <<ANALYSIS_PROMPT_HEAD>> \o _format_dict(DictItems(citation_details))
    IN  [result |-> Return([success |-> TRUE,
                            analysis |-> IF outcome.kind = "return" THEN outcome.value
                                         ELSE <<outcome.exc>>]),
         requests |-> <<Request(prompt, outcome)>>]

\* analyze_citation_strength: the tagged result and the request made
analyze_citation_strength(citation_details, location_info, evidence, outcome) ==
    LET prompt == <<ANALYSIS_PROMPT_HEAD>>
                  \o _format_dict(DictItems(citation_details))
                  \o <<"\n\nJURISDICTION:\n">>
                  \o _format_dict(StateItems(GetOr(location_info, "state", EMPTY_DICT)))
                  \o <<"\n\nAVAILABLE EVIDENCE:\n">>
                  \o _format_dict(DictItems(evidence))
                  \o <<ANALYSIS_PROMPT_TAIL>>
    IN  [result |-> IF outcome.kind = "return"
                    THEN Return([success |-> TRUE, analysis |-> outcome.value])
                    ELSE Return([success |-> FALSE, error |-> <<outcome.exc>>]),
         requests |-> <<Request(prompt, outcome)>>]

\* the literal parts of the prompt of generate_comprehensive_appeal
COMPREHENSIVE_PROMPT_HEAD ==
    "You are an expert legal assistant specializing in parking citation appeals.\nWrite a single, comprehensive appeal letter that strategically incorporates multiple strong arguments.\n\nCITATION DETAILS:\n"

COMPREHENSIVE_PROMPT_TAIL ==
    "\n\nCreate a single, unified appeal letter that:\n1. Opens professionally with citation reference\n2. Presents the strongest arguments from the available angles\n3. Weaves multiple points together coherently (don't list angles separately)\n4. Cites relevant regulations and laws\n5. References all supporting evidence naturally\n6. Maintains a respectful, professional tone throughout\n7. Concludes with a clear request for relief\n\nThe letter should read as a cohesive whole, not as separate sections for each angle.\nAim for 400-600 words. Use formal business letter format."

\* angle_details: the angles of the keys that get_angle resolves, in order
RECURSIVE angle_details(_)
angle_details(all_angles) ==
    IF all_angles = <<>> THEN <<>>
    ELSE (IF get_angle(Head(all_angles)) # NoneValue
          THEN <<get_angle(Head(all_angles))>> ELSE <<>>)
         \o angle_details(Tail(all_angles))

\* for point in points: f"  - {point}\n"
RECURSIVE KeyPointLines(_)
KeyPointLines(points) ==
    IF points = <<>> THEN <<>>
    ELSE <<"  - ", Head(points), "\n">> \o KeyPointLines(Tail(points))

\* angle.strength_indicators[:3]
FirstThree(xs) == SubSeq(xs, 1, IF Len(xs) < 3 THEN Len(xs) ELSE 3)

\* the part of the comprehensive prompt for one angle (lines 312-316)
AngleBlock(angle) ==
    <<"\n", angle.name, ":\n", "Description: ", angle.description, "\n", "Key points:\n">>
    \o KeyPointLines(FirstThree(angle.strength_indicators))

\* for angle in angles: <the angle's part>
RECURSIVE AngleBlocks(_)
AngleBlocks(angles) ==
    IF angles = <<>> THEN <<>>
    ELSE AngleBlock(Head(angles)) \o AngleBlocks(Tail(angles))

\* the prompt of generate_comprehensive_appeal for a state_info that is a dict
ComprehensivePrompt(citation_details, state_info, city_info, all_angles, evidence) ==
    <<COMPREHENSIVE_PROMPT_HEAD>>
    \o _format_dict(DictItems(citation_details))
    \o <<"\n\nJURISDICTION:\nState: ", GetOr(state_info, "name", "Unknown"),
         "\nAppeal Deadline: ",
         (IF "statute_limitations_days" \in DOMAIN state_info
          THEN ToString(state_info.statute_limitations_days) ELSE "Unknown"),
         " days\n">>
    \o (IF GetOr(state_info, "common_defenses", <<>>) # <<>>
        THEN <<"\nRelevant Regulations:\n">> \o BulletLines(state_info.common_defenses)
        ELSE <<>>)
    \o (IF DictTruthy(city_info) /\ GetOr(city_info, "specific_rules", <<>>) # <<>>
        THEN <<"\nCity-Specific Rules:\n">> \o BulletLines(city_info.specific_rules)
        ELSE <<>>)
    \o <<"\n\nAVAILABLE EVIDENCE:\n">>
    \o _format_dict(DictItems(evidence))
    \o <<"\n\nAPPEAL ANGLES TO INCORPORATE:\n">>
    \o AngleBlocks(angle_details(all_angles))
    \o <<COMPREHENSIVE_PROMPT_TAIL>>

\* generate_comprehensive_appeal: the outcome and the requests made.
\* state_info.get(...) at line 294 is outside the try: on None it raises
\* AttributeError before any request is made.
generate_comprehensive_appeal(citation_details, location_info, all_angles, evidence, outcome) ==
    LET state_info == GetOr(location_info, "state", EMPTY_DICT)
        city_info == GetOr(location_info, "city", EMPTY_DICT)
    IN  IF state_info = NoneValue
        THEN [result |-> Raise("AttributeError"), requests |-> <<>>]
        ELSE LET prompt == ComprehensivePrompt(citation_details, state_info, city_info,
                                               all_angles, evidence)
             IN  [result |-> IF outcome.kind = "return" THEN Return(outcome.value)
                             ELSE Return(<<"Error generating comprehensive appeal: ",
                                           outcome.exc>>),
                  requests |-> <<Request(prompt, outcome)>>]

\* the literal parts of the prompt of suggest_follow_up_questions
FOLLOW_UP_PROMPT_HEAD ==
    "Based on this parking citation appeal case, suggest 3-5 specific questions\nthat would help gather additional information to strengthen the appeal.\n\nAPPEAL ANGLE: "

FOLLOW_UP_PROMPT_TAIL ==
    "\n\nGenerate additional specific questions that:\n1. Are directly relevant to this specific situation\n2. Would uncover helpful evidence or details\n3. Are clear and easy to answer\n4. Haven't already been covered\n\nFormat: Return only the questions, one per line, numbered."

\* chr(10).join(f"- {q}" for q in key_questions)
RECURSIVE JoinedQuestions(_)
JoinedQuestions(key_questions) ==
    IF key_questions = <<>> THEN <<>>
    ELSE <<"- ", Head(key_questions)>>
         \o (IF Tail(key_questions) = <<>> THEN <<>> ELSE <<"\n">>)
         \o JoinedQuestions(Tail(key_questions))

\* the characters str.strip() removes
WHITESPACE == {" ", "\t", "\n", "\r", "\f"}

\* s.lstrip(chars) and s.rstrip(chars) of a string of characters
RECURSIVE LStrip(_, _)
LStrip(s, chars) ==
    IF s # <<>> /\ Head(s) \in chars THEN LStrip(Tail(s), chars) ELSE s

RECURSIVE RStrip(_, _)
RStrip(s, chars) ==
    IF s # <<>> /\ s[Len(s)] \in chars THEN RStrip(SubSeq(s, 1, Len(s) - 1), chars) ELSE s

\* s.strip()
Strip(s) == RStrip(LStrip(s, WHITESPACE), WHITESPACE)

\* text.split("\n"): the lines of a text, the empty ones included
RECURSIVE SplitLines(_, _)
SplitLines(text, line) ==
    IF text = <<>> THEN <<line>>
    ELSE IF Head(text) = "\n" THEN <<line>> \o SplitLines(Tail(text), <<>>)
    ELSE SplitLines(Tail(text), Append(line, Head(text)))

\* the characters removed in front of a question: digits and list marks
LIST_MARKS == {"0", "1", "2", "3", "4", "5", "6", "7", "8", "9", ".", "-", ")", " "}

\* the list comprehension of suggest_follow_up_questions over lines
RECURSIVE ParsedQuestions(_)
ParsedQuestions(lines) ==
    IF lines = <<>> THEN <<>>
    ELSE LET stripped == Strip(Head(lines))
         IN  (IF stripped # <<>> /\ Head(stripped) # "#"
              THEN <<Strip(LStrip(stripped, LIST_MARKS))>> ELSE <<>>)
             \o ParsedQuestions(Tail(lines))

\* questions[:5]
FirstFive(xs) == SubSeq(xs, 1, IF Len(xs) < 5 THEN Len(xs) ELSE 5)

\* the prompt of suggest_follow_up_questions
FollowUpPrompt(citation_details, angle) ==
    <<FOLLOW_UP_PROMPT_HEAD, angle.name, "\nCURRENT INFORMATION:\n">>
    \o _format_dict(DictItems(citation_details))
    \o <<"\n\nSTANDARD QUESTIONS FOR THIS ANGLE:\n">>
    \o JoinedQuestions(angle.key_questions)
    \o <<FOLLOW_UP_PROMPT_TAIL>>

\* suggest_follow_up_questions: the questions (each a string of characters)
\* and the request made; the text of the response is a string of characters
suggest_follow_up_questions(citation_details, angle, outcome) ==
    [result |-> IF outcome.kind = "return"
                THEN Return(FirstFive(ParsedQuestions(SplitLines(outcome.value, <<>>))))
                ELSE Return(<<<<"Error generating questions: ", outcome.exc>>>>),
     requests |-> <<Request(FollowUpPrompt(citation_details, angle), outcome)>>]

(***************************************************************************)
(* Web interface: catalog listings                                         *)
(***************************************************************************)
\* get_states (GET /api/states): the code and the name of every state of
\* get_all_states(); info['name'] on None is a TypeError
get_states ==
    LET states == get_all_states.value
    IN  IF \E i \in 1..Len(states) : get_state_info(Str(states[i])).value = NoneValue
        THEN Raise("TypeError")
        ELSE Return([state_code \in Range(states) |->
                        [code |-> state_code,
                         name |-> get_state_info(Str(state_code)).value.name]])

\* get_appeal_angles (GET /api/appeal-angles): one entry per item of
\* get_all_angles(), in catalog order, with the key, the name and the
\* description of the angle
get_appeal_angles ==
    LET angles == get_all_angles
    IN  [i \in 1..Len(APPEAL_ANGLE_KEYS) |->
            [key |-> APPEAL_ANGLE_KEYS[i],
             name |-> angles[APPEAL_ANGLE_KEYS[i]].name,
             description |-> angles[APPEAL_ANGLE_KEYS[i]].description]]

\* the characters of the keys the handlers and the questionnaire write into
\* citation_details and evidence
KEY_CHARS ==
    ("additional_info" :> <<"a", "d", "d", "i", "t", "i", "o", "n", "a", "l", "_", "i", "n", "f", "o">>)
    @@ ("citation_date" :> <<"c", "i", "t", "a", "t", "i", "o", "n", "_", "d", "a", "t", "e">>)
    @@ ("citation_number" :> <<"c", "i", "t", "a", "t", "i", "o", "n", "_", "n", "u", "m", "b", "e", "r">>)
    @@ ("citation_time" :> <<"c", "i", "t", "a", "t", "i", "o", "n", "_", "t", "i", "m", "e">>)
    @@ ("emergency_description" :> <<"e", "m", "e", "r", "g", "e", "n", "c", "y", "_", "d", "e", "s", "c", "r", "i", "p", "t", "i", "o", "n">>)
    @@ ("emergency_situation" :> <<"e", "m", "e", "r", "g", "e", "n", "c", "y", "_", "s", "i", "t", "u", "a", "t", "i", "o", "n">>)
    @@ ("fine_amount" :> <<"f", "i", "n", "e", "_", "a", "m", "o", "u", "n", "t">>)
    @@ ("first_violation" :> <<"f", "i", "r", "s", "t", "_", "v", "i", "o", "l", "a", "t", "i", "o", "n">>)
    @@ ("general_description" :> <<"g", "e", "n", "e", "r", "a", "l", "_", "d", "e", "s", "c", "r", "i", "p", "t", "i", "o", "n">>)
    @@ ("has_disability_placard" :> <<"h", "a", "s", "_", "d", "i", "s", "a", "b", "i", "l", "i", "t", "y", "_", "p", "l", "a", "c", "a", "r", "d">>)
    @@ ("incorrect_vehicle_info" :> <<"i", "n", "c", "o", "r", "r", "e", "c", "t", "_", "v", "e", "h", "i", "c", "l", "e", "_", "i", "n", "f", "o">>)
    @@ ("license_plate" :> <<"l", "i", "c", "e", "n", "s", "e", "_", "p", "l", "a", "t", "e">>)
    @@ ("location" :> <<"l", "o", "c", "a", "t", "i", "o", "n">>)
    @@ ("meter_malfunction" :> <<"m", "e", "t", "e", "r", "_", "m", "a", "l", "f", "u", "n", "c", "t", "i", "o", "n">>)
    @@ ("paid_for_parking" :> <<"p", "a", "i", "d", "_", "f", "o", "r", "_", "p", "a", "r", "k", "i", "n", "g">>)
    @@ ("paid_not_displayed" :> <<"p", "a", "i", "d", "_", "n", "o", "t", "_", "d", "i", "s", "p", "l", "a", "y", "e", "d">>)
    @@ ("payment_method" :> <<"p", "a", "y", "m", "e", "n", "t", "_", "m", "e", "t", "h", "o", "d">>)
    @@ ("time_incorrect" :> <<"t", "i", "m", "e", "_", "i", "n", "c", "o", "r", "r", "e", "c", "t">>)
    @@ ("unclear_signage" :> <<"u", "n", "c", "l", "e", "a", "r", "_", "s", "i", "g", "n", "a", "g", "e">>)
    @@ ("vehicle_color" :> <<"v", "e", "h", "i", "c", "l", "e", "_", "c", "o", "l", "o", "r">>)
    @@ ("vehicle_make" :> <<"v", "e", "h", "i", "c", "l", "e", "_", "m", "a", "k", "e">>)
    @@ ("vehicle_model" :> <<"v", "e", "h", "i", "c", "l", "e", "_", "m", "o", "d", "e", "l">>)
    @@ ("violation_type" :> <<"v", "i", "o", "l", "a", "t", "i", "o", "n", "_", "t", "y", "p", "e">>)

\* the entries of citation_details in analyze_citation, in the order of the
\* dict display, each with the default of its data.get
ANALYZE_FIELDS ==
    <<[key |-> "citation_number", default |-> "None"],
       [key |-> "violation_type", default |-> "None"],
       [key |-> "unclear_signage", default |-> "False"],
       [key |-> "meter_malfunction", default |-> "False"],
       [key |-> "emergency_situation", default |-> "False"],
       [key |-> "paid_for_parking", default |-> "False"],
       [key |-> "paid_not_displayed", default |-> "False"],
       [key |-> "first_violation", default |-> "False"],
       [key |-> "time_incorrect", default |-> "False"],
       [key |-> "has_disability_placard", default |-> "False"],
       [key |-> "incorrect_vehicle_info", default |-> "False"]>>

\* the entries of citation_details in generate_appeal
GENERATE_FIELDS ==
    <<[key |-> "citation_number", default |-> "None"],
       [key |-> "citation_date", default |-> "None"],
       [key |-> "citation_time", default |-> "None"],
       [key |-> "location", default |-> "None"],
       [key |-> "violation_type", default |-> "None"],
       [key |-> "fine_amount", default |-> "None"],
       [key |-> "first_violation", default |-> "False"],
       [key |-> "unclear_signage", default |-> "False"],
       [key |-> "meter_malfunction", default |-> "False"],
       [key |-> "emergency_situation", default |-> "False"],
       [key |-> "emergency_description", default |-> "None"],
       [key |-> "paid_for_parking", default |-> "False"],
       [key |-> "paid_not_displayed", default |-> "False"],
       [key |-> "time_incorrect", default |-> "False"],
       [key |-> "has_disability_placard", default |-> "False"],
       [key |-> "additional_info", default |-> "None"]>>

\* {key: data.get(key, default), ...} for the entries of fields
CitationDetailsOf(data, fields) ==
    [i \in 1..Len(fields) |->
        <<KEY_CHARS[fields[i].key], GetOr(data, fields[i].key, fields[i].default)>>]

\* the key spelled by the characters of a key of the handlers
KEY_NAMES ==
    [c \in {KEY_CHARS[k] : k \in DOMAIN KEY_CHARS} |->
        CHOOSE k \in DOMAIN KEY_CHARS : KEY_CHARS[k] = c]

\* a dict in insertion order as the mapping analyze_situation reads
AsMapping(d) ==
    [k \in {KEY_NAMES[d[i][1]] : i \in 1..Len(d)} |->
        d[CHOOSE i \in 1..Len(d) : KEY_NAMES[d[i][1]] = k][2]]

\* the angle_details list of analyze_citation: one entry per suggested key
\* that get_angle resolves
RECURSIVE SuggestedDetails(_)
SuggestedDetails(suggested_angles) ==
    IF suggested_angles = <<>> THEN <<>>
    ELSE LET angle_key == Head(suggested_angles)
             angle == get_angle(angle_key)
         IN  (IF angle # NoneValue
              THEN <<[key |-> angle_key, name |-> angle.name,
                      description |-> angle.description,
                      questions |-> FirstThree(angle.key_questions)]>>
              ELSE <<>>)
             \o SuggestedDetails(Tail(suggested_angles))

\* analyze_citation (POST /api/analyze) on the request body data
analyze_citation(data) ==
    LET citation_details == CitationDetailsOf(data, ANALYZE_FIELDS)
        suggested_angles == analyze_situation(AsMapping(citation_details))
    IN  [status |-> 200,
         body |-> [success |-> TRUE,
                   suggested_angles |-> SuggestedDetails(suggested_angles)]]

\* the evidence dict of generate_appeal: has_<item> for each item of the
\* body's evidence list, then general_description
RECURSIVE EvidenceOfItems(_, _)
EvidenceOfItems(evidence_items, evidence) ==
    IF evidence_items = <<>> THEN evidence
    ELSE LET key == <<"h", "a", "s", "_">> \o StrReplace(StrLower(Head(evidence_items)), " ", "_")
             at == {i \in 1..Len(evidence) : evidence[i][1] = key}
         IN  EvidenceOfItems(Tail(evidence_items),
                             IF at = {} THEN Append(evidence, <<key, "True">>)
                             ELSE evidence)

WebEvidence(data) ==
    LET evidence == EvidenceOfItems(GetOr(data, "evidence", <<>>), <<>>)
    IN  IF Truthy(GetOr(data, "evidence_description", "None"))
        THEN Append(evidence, <<KEY_CHARS["general_description"], data.evidence_description>>)
        ELSE evidence

\* [get_angle(key).name for key in selected_angles if get_angle(key)]
RECURSIVE AngleNames(_)
AngleNames(selected_angles) ==
    IF selected_angles = <<>> THEN <<>>
    ELSE (IF get_angle(Head(selected_angles)) # NoneValue
          THEN <<get_angle(Head(selected_angles)).name>> ELSE <<>>)
         \o AngleNames(Tail(selected_angles))

\* the response of the except branch of generate_appeal: str(e) is written
\* as the name of the exception
ServerError(e) == [status |-> 500, body |-> [success |-> FALSE, error |-> e.exc]]

\* generate_appeal (POST /api/generate-appeal) on the request body data, with
\* the value of the environment variable and the outcomes of the generation
\* calls it makes: the response and the requests made
generate_appeal(data, environment_key, outcome, analysis_outcome) ==
    IF ~StrTruthy(environment_key)
    THEN [response |-> [status |-> 400,
                        body |-> [success |-> FALSE, error |-> "API key not configured"]],
          requests |-> <<>>]
    ELSE
    LET citation_details == CitationDetailsOf(data, GENERATE_FIELDS)
        location_info == get_combined_info(GetOr(data, "city", NoneValue),
                                           GetOr(data, "state", NoneValue))
        selected_angles ==
            IF GetOr(data, "selected_angles", <<>>) # <<>> THEN data.selected_angles
            ELSE analyze_situation(AsMapping(citation_details))
        evidence == WebEvidence(data)
        appeal == generate_comprehensive_appeal(
                      citation_details,
                      [state |-> location_info.value.state, city |-> location_info.value.city],
                      selected_angles, evidence, outcome)
        include_analysis == Truthy(GetOr(data, "include_analysis", "True"))
        analysis == analyze_citation_strength(citation_details, location_info.value,
                                              evidence, analysis_outcome)
        analysis_text ==
            IF include_analysis /\ analysis.result.value.success
            THEN Str(analysis.result.value.analysis) ELSE NoneValue
    IN  IF location_info.kind = "raise"
        THEN [response |-> ServerError(location_info), requests |-> <<>>]
        ELSE IF appeal.result.kind = "raise"
        THEN [response |-> ServerError(appeal.result), requests |-> appeal.requests]
        ELSE [response |-> [status |-> 200,
                            body |-> [success |-> TRUE, appeal |-> appeal.result.value,
                                      analysis |-> analysis_text,
                                      angles_used |-> AngleNames(selected_angles)]],
              requests |-> appeal.requests
                           \o (IF include_analysis THEN analysis.requests ELSE <<>>)]

(***************************************************************************)
(* InteractiveQuestionnaire                                                *)
(*                                                                         *)
(* What the user types is an argument of the operation: an answer to a     *)
(* yes/no question is a Python bool, an answer to a text question is the   *)
(* literal of the (stripped) string typed.                                 *)
(***************************************************************************)
\* evidence_types of gather_evidence_details
EVIDENCE_TYPES ==
    <<<<"P", "h", "o", "t", "o", "s", " ", "o", "f", " ", "p", "a", "r", "k", "i", "n", "g", " ", "l", "o", "c", "a", "t", "i", "o", "n", " ", "a", "n", "d", " ", "s", "i", "g", "n", "a", "g", "e">>,
      <<"P", "h", "o", "t", "o", "s", " ", "o", "f", " ", "t", "h", "e", " ", "c", "i", "t", "a", "t", "i", "o", "n", " ", "i", "t", "s", "e", "l", "f">>,
      <<"P", "a", "r", "k", "i", "n", "g", " ", "r", "e", "c", "e", "i", "p", "t", " ", "o", "r", " ", "p", "a", "y", "m", "e", "n", "t", " ", "c", "o", "n", "f", "i", "r", "m", "a", "t", "i", "o", "n">>,
      <<"P", "h", "o", "t", "o", "s", " ", "o", "f", " ", "m", "e", "t", "e", "r", " ", "(", "s", "h", "o", "w", "i", "n", "g", " ", "m", "a", "l", "f", "u", "n", "c", "t", "i", "o", "n", ",", " ", "e", "t", "c", ".", ")">>,
      <<"C", "r", "e", "d", "i", "t", " ", "c", "a", "r", "d", "/", "b", "a", "n", "k", " ", "s", "t", "a", "t", "e", "m", "e", "n", "t", " ", "s", "h", "o", "w", "i", "n", "g", " ", "p", "a", "y", "m", "e", "n", "t">>,
      <<"M", "e", "d", "i", "c", "a", "l", " ", "d", "o", "c", "u", "m", "e", "n", "t", "a", "t", "i", "o", "n", " ", "(", "f", "o", "r", " ", "e", "m", "e", "r", "g", "e", "n", "c", "y", ")">>,
      <<"P", "o", "l", "i", "c", "e", " ", "r", "e", "p", "o", "r", "t">>,
      <<"W", "i", "t", "n", "e", "s", "s", " ", "s", "t", "a", "t", "e", "m", "e", "n", "t", "s">>,
      <<"V", "e", "h", "i", "c", "l", "e", " ", "r", "e", "g", "i", "s", "t", "r", "a", "t", "i", "o", "n", " ", "d", "o", "c", "u", "m", "e", "n", "t", "s">>,
      <<"G", "P", "S", " ", "o", "r", " ", "l", "o", "c", "a", "t", "i", "o", "n", " ", "d", "a", "t", "a">>,
      <<"O", "t", "h", "e", "r", " ", "d", "o", "c", "u", "m", "e", "n", "t", "a", "t", "i", "o", "n">>>>

\* evidence_type.lower().replace(" ", "_").replace("/", "_")
EvidenceTypeKey(evidence_type) ==
    StrReplace(StrReplace(StrLower(evidence_type), " ", "_"), "/", "_")

\* d[key] = value on a dict in insertion order
DictSet(d, key, value) ==
    IF \E i \in 1..Len(d) : d[i][1] = key
    THEN [i \in 1..Len(d) |-> IF d[i][1] = key THEN <<key, value>> ELSE d[i]]
    ELSE Append(d, <<key, value>>)

RECURSIVE EvidenceLoop(_, _, _, _)
\* a variant of EvidenceLoop that records an evidence type under its bare key
EvidenceLoop_bare_keys(selected, details, n, evidence) ==
    IF n > Len(selected) THEN evidence
    ELSE LET key == EvidenceTypeKey(selected[n])
             with_has == DictSet(evidence, key, "True")
         IN  EvidenceLoop(selected, details, n + 1,
                          IF Truthy(details[n])
                          THEN DictSet(with_has, key \o <<"_", "d", "e", "t", "a", "i", "l", "s">>,
                                       details[n])
                          ELSE with_has)

\* the loop of gather_evidence_details over the selected evidence types;
\* details[n] is the description typed for the n-th of them
EvidenceLoop(selected, details, n, evidence) ==
    IF n > Len(selected) THEN evidence
    ELSE LET key == EvidenceTypeKey(selected[n])
             with_has == DictSet(evidence, <<"h", "a", "s", "_">> \o key, "True")
         IN  EvidenceLoop(selected, details, n + 1,
                          IF Truthy(details[n])
                          THEN DictSet(with_has, key \o <<"_", "d", "e", "t", "a", "i", "l", "s">>,
                                       details[n])
                          ELSE with_has)

\* gather_evidence_details: self.evidence after the questions, for the
\* answer has_evidence and the evidence types selected
gather_evidence_details(has_evidence, selected, details) ==
    IF has_evidence THEN EvidenceLoop(selected, details, 1, <<>>) ELSE <<>>

\* a dict of evidence in insertion order as the mapping get_angle_strength
\* reads
EvidenceMapping(d) ==
    [k \in {d[i][1] : i \in 1..Len(d)} |-> d[CHOOSE i \in 1..Len(d) : d[i][1] = k][2]]

\* the strengths identify_appeal_angles prints, one per suggested angle that
\* get_angle resolves
RECURSIVE ShownStrengths(_, _)
ShownStrengths(suggested_angles, evidence) ==
    IF suggested_angles = <<>> THEN <<>>
    ELSE LET angle_key == Head(suggested_angles)
         IN  (IF get_angle(angle_key) # NoneValue
              THEN <<[name |-> get_angle(angle_key).name,
                      strength |-> get_angle_strength(angle_key,
                                                      EvidenceMapping(evidence)).value]>>
              ELSE <<>>)
             \o ShownStrengths(Tail(suggested_angles), evidence)

\* name_to_key[name]: the key of the last suggested angle whose display name
\* is name
KeyOfName(suggested_angles, name) ==
    LET at == {i \in 1..Len(suggested_angles) :
                  get_angle(suggested_angles[i]) # NoneValue
                  /\ get_angle(suggested_angles[i]).name = name}
    IN  suggested_angles[CHOOSE i \in at : \A j \in at : i >= j]

\* identify_appeal_angles: what is printed and the keys returned; use_all is
\* the answer to "pursue all suggested angles?" and chosen the numbers typed
\* otherwise, each the position of a printed angle
identify_appeal_angles(citation_details, evidence, use_all, chosen) ==
    LET suggested_angles == analyze_situation(AsMapping(citation_details))
        shown == ShownStrengths(suggested_angles, evidence)
    IN  [shown |-> shown,
         selected_angles |->
             IF use_all THEN suggested_angles
             ELSE [n \in 1..Len(chosen) |-> KeyOfName(suggested_angles, shown[chosen[n]].name)]]

\* the text answers of the questionnaire that the model keeps fixed
TEXT_ANSWERS ==
    << <<"citation_number", "'ABC123'">>, <<"citation_date", "'text'">>,
       <<"citation_time", "''">>, <<"location", "'text'">>,
       <<"violation_type", "'text'">>, <<"fine_amount", "''">>,
       <<"vehicle_make", "''">>, <<"vehicle_model", "''">>,
       <<"vehicle_color", "''">>, <<"license_plate", "'text'">> >>

\* the yes/no questions of gather_vehicle_info and gather_situation_details,
\* in the order asked
YES_NO_QUESTIONS ==
    <<"incorrect_vehicle_info", "first_violation", "unclear_signage", "paid_for_parking",
      "meter_malfunction", "emergency_situation", "time_incorrect",
      "has_disability_placard">>

\* the entries the yes/no answers add to citation_details: yes is the set of
\* questions answered yes; a yes to paid_for_parking or emergency_situation
\* is followed by its further questions
RECURSIVE SituationEntries(_, _)
SituationEntries(questions, yes) ==
    IF questions = <<>> THEN <<>>
    ELSE LET q == Head(questions)
         IN  <<<<KEY_CHARS[q], StrOfBool(q \in yes)>>>>
             \o (IF q = "paid_for_parking" /\ q \in yes
                 THEN <<<<KEY_CHARS["payment_method"], "'text'">>,
                        <<KEY_CHARS["paid_not_displayed"], StrOfBool("paid_not_displayed" \in yes)>>>>
                 ELSE IF q = "emergency_situation" /\ q \in yes
                 THEN <<<<KEY_CHARS["emergency_description"], "'text'">>>>
                 ELSE <<>>)
             \o SituationEntries(Tail(questions), yes)

\* gather_location_info: state is the code typed, city the city typed (the
\* empty string for an empty answer)
gather_location_info(state, city) ==
    LET code == UpperOf(state).value
        combined_info == get_combined_info(city, Str(code)).value
    IN  IF StrTruthy(city)
        THEN [state |-> code, city |-> city.v, regulations |-> combined_info]
        ELSE [state |-> code, regulations |-> combined_info]

\* run_full_questionnaire for the answers of the user
run_full_questionnaire(answers) ==
    LET citation_details ==
            [i \in 1..Len(TEXT_ANSWERS) |->
                <<KEY_CHARS[TEXT_ANSWERS[i][1]], TEXT_ANSWERS[i][2]>>]
            \o SituationEntries(YES_NO_QUESTIONS, answers.yes)
            \o (IF Truthy(answers.additional_info)
                THEN <<<<KEY_CHARS["additional_info"], answers.additional_info>>>>
                ELSE <<>>)
        evidence == gather_evidence_details(answers.has_evidence, answers.evidence_types,
                                            answers.evidence_details)
        angles == identify_appeal_angles(citation_details, evidence, answers.use_all,
                                         answers.chosen)
    IN  [citation_details |-> citation_details,
         location_info |-> gather_location_info(answers.state, answers.city),
         evidence |-> evidence,
         selected_angles |-> angles.selected_angles]

\* the loop of ask_follow_up_questions from the i-th question on; replies[i]
\* is the answer typed to the i-th question
RECURSIVE ask_follow_up_questions(_, _, _)
ask_follow_up_questions(questions, replies, i) ==
    IF i > Len(questions) THEN <<>>
    ELSE (IF Truthy(replies[i])
          THEN <<<<<<"f", "o", "l", "l", "o", "w", "u", "p", "_", "q", ToString(i)>>,
                   "{'question': '" \o Flat(questions[i]) \o "', 'answer': "
                       \o replies[i] \o "}">>>>
          ELSE <<>>)
         \o ask_follow_up_questions(questions, replies, i + 1)

\* d.update(other) on dicts in insertion order
RECURSIVE DictUpdate(_, _)
DictUpdate(d, other) ==
    IF other = <<>> THEN d
    ELSE DictUpdate(DictSet(d, Head(other)[1], Head(other)[2]), Tail(other))

(***************************************************************************)
(* AppealWorkflow                                                          *)
(***************************************************************************)
\* quick_appeal: the appeal text, or the exception, and the requests made
quick_appeal(citation_number, state, violation_type, outcome) ==
    LET citation_details ==
            <<<<KEY_CHARS["citation_number"], citation_number>>,
              <<KEY_CHARS["violation_type"], violation_type>>,
              <<KEY_CHARS["first_violation"], "True">>>>
        location_info == get_combined_info(NoneValue, state)
        angles == <<"procedural_error", "first_time_leniency">>
    IN  IF location_info.kind = "raise"
        THEN [result |-> location_info, requests |-> <<>>]
        ELSE generate_comprehensive_appeal(
                 citation_details,
                 [state |-> location_info.value.state, city |-> NoneValue],
                 angles, <<>>, outcome)

(***************************************************************************)
(* The inputs callers pass.                                                *)
(***************************************************************************)
\* the facts read by the nine checks of analyze_situation, one group per check
TRIGGER_FACTS ==
    << <<"has_errors", "missing_info", "incorrect_vehicle_info">>,
       <<"unclear_signage", "no_visible_signs", "conflicting_signs">>,
       <<"meter_malfunction", "payment_failed", "paid_but_cited">>,
       <<"emergency_situation">>,
       <<"paid_not_displayed", "receipt_not_visible">>,
       <<"unclear_zone", "zone_boundary_unclear">>,
       <<"first_violation">>,
       <<"disability_related", "has_disability_placard">>,
       <<"time_incorrect", "timeline_conflicts">> >>

\* facts the questionnaire and the web handler store and no check reads
OTHER_FACTS == {"citation_number", "paid_for_parking"}

FactKeys == UNION {Range(TRIGGER_FACTS[i]) : i \in 1..Len(TRIGGER_FACTS)} \cup OTHER_FACTS

\* values of a fact: absent answers, yes/no answers, empty and non-empty text
FactValues == {"None", "False", "True", "''", "'text'"}

\* the subsets of S with at most n elements
RECURSIVE SubsetsUpTo(_, _)
SubsetsUpTo(S, n) ==
    IF n = 0 THEN {{}}
    ELSE LET P == SubsetsUpTo(S, n - 1)
         IN  P \cup {T \cup {x} : T \in P, x \in S}

\* arbitrary facts mappings with at most MaxFacts entries
SmallFacts == UNION {[S -> FactValues] : S \in SubsetsUpTo(FactKeys, MaxFacts)}

\* key sets holding at most one fact of each of the checks i..9
RECURSIVE FlagSets(_)
FlagSets(i) ==
    IF i > Len(TRIGGER_FACTS) THEN {{}}
    ELSE LET rest == FlagSets(i + 1)
         IN  rest \cup {T \cup {k} : T \in rest, k \in Range(TRIGGER_FACTS[i])}

\* yes/no questionnaires: any combination of checks answered yes
FlagFacts == {[k \in S |-> "True"] : S \in FlagSets(1)}

\* angle keys passed to get_angle and get_angle_strength: the catalog keys, a
\* display name, a key in the wrong case, the empty string and an unknown key
ANGLE_KEY_INPUTS ==
    Range(APPEAL_ANGLE_KEYS)
    \cup {"Procedural Error", "SIGNAGE_ISSUES", "", "unknown_angle"}

\* evidence keys that are the derived key of no required-evidence item: an item
\* text as written in the catalog, a key as the questionnaire builds it, and
\* the web handler's description key
FOREIGN_EVIDENCE_KEYS ==
    << <<"W","i","t","n","e","s","s"," ","s","t","a","t","e","m","e","n","t","s">>,
       <<"h","a","s","_","w","i","t","n","e","s","s","_","s","t","a","t","e","m","e","n",
         "t","s">>,
       <<"g","e","n","e","r","a","l","_","d","e","s","c","r","i","p","t","i","o","n">> >>

EvidenceValues == {"False", "True", "'text'"}

\* the derived keys of the required evidence of a catalog angle
RequiredKeys(angle_key) ==
    {EvidenceKey(item) : item \in Range(APPEAL_ANGLES[angle_key].required_evidence)}

\* the keys an evidence set passed for angle_key may hold: the derived keys
\* of that angle (of signage_issues for a key outside the catalog) and the
\* first MaxForeignKeys foreign keys
EvidenceKeyPool(angle_key) ==
    (IF angle_key \in DOMAIN APPEAL_ANGLES
     THEN RequiredKeys(angle_key) ELSE RequiredKeys("signage_issues"))
    \cup {FOREIGN_EVIDENCE_KEYS[i] : i \in 1..MaxForeignKeys}

EvidenceSets(angle_key) ==
    UNION {[S -> EvidenceValues] : S \in SUBSET EvidenceKeyPool(angle_key)}

\* characters of the state codes callers pass: the letters of the catalog
\* codes in both cases and a digit
STATE_ALPHABET ==
    {"C", "A", "N", "Y", "T", "X", "F", "L", "I",
     "c", "a", "n", "y", "t", "x", "f", "l", "i", "7"}

\* state_code arguments: strings of at most MaxStateCodeLen characters, and
\* None (data.get('state') of a request body without a state)
StateCodeInputs ==
    {NoneValue}
    \cup {Str(s) : s \in UNION {[1..n -> STATE_ALPHABET] : n \in 0..MaxStateCodeLen}}

\* city_name arguments: None, the empty answer, the catalog names, a catalog
\* name in lower case and a name outside the catalog
CityNameInputs ==
    {NoneValue}
    \cup {Str(c) : c \in Range(CITY_NAMES) \cup {"", "san francisco", "Gotham"}}

\* the dicts in insertion order with at most n entries, keys from keys and
\* values from values
OrderedDicts(keys, values, n) ==
    {d \in UNION {[1..m -> keys \X values] : m \in 0..n} :
        \A i, j \in 1..Len(d) : i # j => d[i][1] # d[j][1]}

\* keys of the facts passed to the prompt builder: a fact the questionnaire
\* records as text, a fact the classifier reads, and a key of a web request
\* with capital letters
PROMPT_FACT_KEYS ==
    {<<"c", "i", "t", "a", "t", "i", "o", "n", "_", "n", "u", "m", "b", "e", "r">>,
     <<"f", "i", "r", "s", "t", "_", "v", "i", "o", "l", "a", "t", "i", "o", "n">>,
     <<"V", "I", "N", "_", "n", "u", "m", "b", "e", "r">>}

PromptFactValues == {"False", "True", "'ABC123'"}

PromptFacts == OrderedDicts(PROMPT_FACT_KEYS, PromptFactValues, MaxEntries)

\* keys of the evidence passed to the prompt builder: the key of the tests
\* and a details key of the questionnaire
PROMPT_EVIDENCE_KEYS ==
    {<<"p", "h", "o", "t", "o", "s">>,
     <<"r", "e", "c", "e", "i", "p", "t", "_", "d", "e", "t", "a", "i", "l", "s">>}

PromptEvidenceValues == {"False", "True", "'photo of the sign'"}

PromptEvidence == OrderedDicts(PROMPT_EVIDENCE_KEYS, PromptEvidenceValues, MaxEntries)

\* the facts and evidence passed to the operations that call the generation
\* capability
GeneratorFacts ==
    {<<>>,
     << <<<<"c", "i", "t", "a", "t", "i", "o", "n", "_", "n", "u", "m", "b", "e", "r">>, "'ABC123'">>,
        <<<<"f", "i", "r", "s", "t", "_", "v", "i", "o", "l", "a", "t", "i", "o", "n">>, "False">> >>}

GeneratorEvidence ==
    {<<>>, << <<<<"p", "h", "o", "t", "o", "s">>, "True">> >>}

\* the lookups whose result is passed as location_info: an unknown state, a
\* state without city, and cities with and without online appeal
LOCATION_LOOKUPS ==
    {<<NoneValue, Str(<<"Z", "Z">>)>>,
     <<NoneValue, Str(<<"N", "Y">>)>>,
     <<Str("San Francisco"), Str(<<"C", "A">>)>>,
     <<Str("Houston"), Str(<<"t", "x">>)>>}

\* the location_info of test_build_appeal_prompt: a state record with two of
\* its fields
TEST_LOCATION ==
    [state |-> [name |-> "California", statute_limitations_days |-> 21], city |-> NoneValue]

LocationInputs ==
    {get_combined_info(lookup[1], lookup[2]).value : lookup \in LOCATION_LOOKUPS}
    \cup {TEST_LOCATION}

\* the angles passed to the prompt builder
PROMPT_ANGLE_KEYS == {"procedural_error", "meter_malfunction"}

\* the keys of the angle lists passed to the generators, and the lists
GENERATOR_ANGLE_KEYS == {"procedural_error", "zone_confusion", "unknown_angle"}

AngleLists == UNION {[1..n -> GENERATOR_ANGLE_KEYS] : n \in 0..MaxAngles}

\* what model.generate_content may answer: a text, among them texts that read
\* like an error message, or an exception
GENERATED_TEXTS ==
    {"Dear Hearing Officer, I respectfully request dismissal of this citation.",
     "To whom it may concern: the signage at the location was not visible.",
     "Error generating appeal: quota exceeded",
     "Error generating comprehensive appeal: quota exceeded"}

GenerationOutcomes == {Return(<<t>>) : t \in GENERATED_TEXTS} \cup {Raise("quota exceeded")}

(***************************************************************************)
(* The caller: initial state and one action per operation.                 *)
(***************************************************************************)
catalogs == <<appeal_angles, state_regulations, city_regulations, common_appeal_grounds>>

\* the callers that run at the same time, each in its own thread
Callers == 1..NumCallers

\* the frame of a caller that is in no call: the operation, its arguments, its
\* local variables and its outcome
IdleFrame ==
    [pc |-> "idle", op |-> "none", args |-> NoneValue, ret |-> NoneValue,
     relevant_angles |-> <<>>, i |-> 0, angle |-> NoneValue, evidence_count |-> 0,
     info |-> NoneValue, prompt |-> <<>>]

\* the workflow before run_complete_workflow is entered
NoWorkflow == [step |-> "none"]

vars == <<pc, op, args, ret, requests, catalogs, frames, workflow>>

Init ==
    /\ pc = "idle"
    /\ op = "none"
    /\ args = NoneValue
    /\ ret = NoneValue
    /\ requests = <<>>
    /\ appeal_angles = APPEAL_ANGLES
    /\ state_regulations = STATE_REGULATIONS
    /\ city_regulations = CITY_REGULATIONS
    /\ common_appeal_grounds = COMMON_APPEAL_GROUNDS
    /\ frames = [t \in Callers |-> IdleFrame]
    /\ workflow = NoWorkflow

\* the call of operation o with arguments a completes with outcome r
Completed(o, a, r) ==
    /\ pc' = "returned"
    /\ op' = o
    /\ args' = a
    /\ ret' = r
    /\ requests' = <<>>
    /\ UNCHANGED <<catalogs, frames, workflow>>

\* a call of operation o that made the requests reqs
CompletedWith(o, a, r, reqs) ==
    /\ pc' = "returned"
    /\ op' = o
    /\ args' = a
    /\ ret' = r
    /\ requests' = reqs
    /\ UNCHANGED <<catalogs, frames, workflow>>

CallAnalyzeSituation ==
    /\ pc = "idle"
    /\ \E citation_details \in SmallFacts \cup FlagFacts :
           Completed("analyze_situation", [citation_details |-> citation_details],
                     Return(analyze_situation(citation_details)))

CallGetAllAngles ==
    /\ pc = "idle"
    /\ Completed("get_all_angles", NoneValue, Return(get_all_angles))

CallGetAngle ==
    /\ pc = "idle"
    /\ \E angle_key \in ANGLE_KEY_INPUTS :
           Completed("get_angle", [angle_key |-> angle_key], Return(get_angle(angle_key)))

CallGetAngleStrength ==
    /\ pc = "idle"
    /\ \E angle_key \in ANGLE_KEY_INPUTS :
           \E evidence \in EvidenceSets(angle_key) :
               Completed("get_angle_strength",
                         [angle_key |-> angle_key, evidence |-> evidence],
                         get_angle_strength(angle_key, evidence))

CallGetStateInfo ==
    /\ pc = "idle"
    /\ \E state_code \in StateCodeInputs :
           Completed("get_state_info", [state_code |-> state_code],
                     get_state_info(state_code))

CallGetCityInfo ==
    /\ pc = "idle"
    /\ \E city_name \in CityNameInputs :
           Completed("get_city_info", [city_name |-> city_name], get_city_info(city_name))

CallGetCombinedInfo ==
    /\ pc = "idle"
    /\ \E city_name \in CityNameInputs :
           \E state_code \in StateCodeInputs :
               Completed("get_combined_info",
                         [city_name |-> city_name, state_code |-> state_code],
                         get_combined_info(city_name, state_code))

CallGetAllStates ==
    /\ pc = "idle"
    /\ Completed("get_all_states", NoneValue, get_all_states)

CallGetCitiesForState ==
    /\ pc = "idle"
    /\ \E state_code \in StateCodeInputs :
           Completed("get_cities_for_state", [state_code |-> state_code],
                     get_cities_for_state(state_code))

\* the caller takes the outcome and is ready for its next call
CallGetAppealAngles ==
    /\ pc = "idle"
    /\ Completed("get_appeal_angles", NoneValue, Return(get_appeal_angles))

CallGetStates ==
    /\ pc = "idle"
    /\ Completed("get_states", NoneValue, get_states)

CallBuildAppealPrompt ==
    /\ pc = "idle"
    /\ \E citation_details \in PromptFacts, evidence \in PromptEvidence,
          location_info \in LocationInputs, angle_key \in PROMPT_ANGLE_KEYS :
           Completed("_build_appeal_prompt",
                     [citation_details |-> citation_details, location_info |-> location_info,
                      angle |-> get_angle(angle_key), evidence |-> evidence],
                     Return(_build_appeal_prompt(citation_details, location_info,
                                                 get_angle(angle_key), evidence)))

CallGenerateMultiAngleAppeal ==
    /\ pc = "idle"
    /\ \E citation_details \in GeneratorFacts, evidence \in GeneratorEvidence,
          location_info \in LocationInputs, selected_angles \in AngleLists :
           \E outcomes \in [1..Len(selected_angles) -> GenerationOutcomes] :
               LET done == generate_multi_angle_appeal(citation_details, location_info,
                                                       selected_angles, evidence, outcomes)
               IN  CompletedWith("generate_multi_angle_appeal",
                                 [citation_details |-> citation_details,
                                  location_info |-> location_info,
                                  selected_angles |-> selected_angles,
                                  evidence |-> evidence],
                                 done.result, done.requests)

CallAnalyzeCitationStrength ==
    /\ pc = "idle"
    /\ \E citation_details \in GeneratorFacts, evidence \in GeneratorEvidence,
          location_info \in LocationInputs, outcome \in GenerationOutcomes :
           LET done == analyze_citation_strength(citation_details, location_info,
                                                 evidence, outcome)
           IN  CompletedWith("analyze_citation_strength",
                             [citation_details |-> citation_details,
                              location_info |-> location_info, evidence |-> evidence],
                             done.result, done.requests)

CallGenerateComprehensiveAppeal ==
    /\ pc = "idle"
    /\ \E citation_details \in GeneratorFacts, evidence \in GeneratorEvidence,
          location_info \in LocationInputs, all_angles \in AngleLists,
          outcome \in GenerationOutcomes :
           LET done == generate_comprehensive_appeal(citation_details, location_info,
                                                     all_angles, evidence, outcome)
           IN  CompletedWith("generate_comprehensive_appeal",
                             [citation_details |-> citation_details,
                              location_info |-> location_info,
                              all_angles |-> all_angles, evidence |-> evidence],
                             done.result, done.requests)

Done ==
    /\ pc = "returned"
    /\ pc' = "idle"
    /\ op' = "none"
    /\ args' = NoneValue
    /\ ret' = NoneValue
    /\ requests' = <<>>
    /\ UNCHANGED <<catalogs, frames, workflow>>

(***************************************************************************)
(* A caller that writes to the value get_combined_info returned to it.     *)
(* The info dict is built by the call, but its "state" and "city" values   *)
(* are the records of the catalogs and its "available_grounds" value is    *)
(* the list COMMON_APPEAL_GROUNDS itself (regulations.py lines 162-170):   *)
(* a write through them is a write to the catalog object.                  *)
(***************************************************************************)
\* the caller holds the dict a get_combined_info call returned
HoldsInfo == pc = "returned" /\ op = "get_combined_info" /\ ret.kind = "return"

\* the number of catalog objects that callers have changed
CallerWrites ==
    (Len(common_appeal_grounds) - Len(COMMON_APPEAL_GROUNDS))
    + Cardinality({code \in DOMAIN state_regulations :
                      state_regulations[code] # STATE_REGULATIONS[code]})
    + Cardinality({city \in DOMAIN city_regulations :
                      city_regulations[city] # CITY_REGULATIONS[city]})

\* info["city"] = None: a write to the dict the call built
CallerSetsInfoField ==
    /\ HoldsInfo
    /\ ret.value.city # NoneValue
    /\ ret' = [ret EXCEPT !.value.city = NoneValue]
    /\ UNCHANGED <<pc, op, args, requests, catalogs, frames, workflow>>

\* info["available_grounds"].append("my_ground")
CallerAppendsGround ==
    /\ HoldsInfo
    /\ CallerWrites < MaxCallerWrites
    /\ common_appeal_grounds' = Append(common_appeal_grounds, "my_ground")
    /\ ret' = [ret EXCEPT !.value.available_grounds = common_appeal_grounds']
    /\ UNCHANGED <<pc, op, args, requests, appeal_angles, state_regulations,
                   city_regulations, frames, workflow>>

\* info["state"]["name"] = "Changed"
CallerEditsStateRecord ==
    /\ HoldsInfo
    /\ ret.value.state # NoneValue
    /\ CallerWrites < MaxCallerWrites
    /\ LET code == UpperOf(args.state_code).value
       IN  /\ state_regulations' = [state_regulations EXCEPT ![code].name = "Changed"]
           /\ ret' = [ret EXCEPT !.value.state = state_regulations'[code]]
    /\ UNCHANGED <<pc, op, args, requests, appeal_angles, city_regulations,
                   common_appeal_grounds, frames, workflow>>

\* info["city"]["online_appeal"] = False
CallerEditsCityRecord ==
    /\ HoldsInfo
    /\ ret.value.city # NoneValue
    /\ CallerWrites < MaxCallerWrites
    /\ LET city == args.city_name.v
       IN  /\ city_regulations' = [city_regulations EXCEPT ![city].online_appeal = FALSE]
           /\ ret' = [ret EXCEPT !.value.city = city_regulations'[city]]
    /\ UNCHANGED <<pc, op, args, requests, appeal_angles, state_regulations,
                   common_appeal_grounds, frames, workflow>>

Next ==
    \/ CallAnalyzeSituation
    \/ CallGetAllAngles
    \/ CallGetAngle
    \/ CallGetAngleStrength
    \/ CallGetStateInfo
    \/ CallGetCityInfo
    \/ CallGetCombinedInfo
    \/ CallGetAllStates
    \/ CallGetCitiesForState
    \/ CallGetAppealAngles
    \/ CallGetStates
    \/ CallBuildAppealPrompt
    \/ CallGenerateMultiAngleAppeal
    \/ CallAnalyzeCitationStrength
    \/ CallGenerateComprehensiveAppeal
    \/ Done

Spec == Init /\ [][Next]_vars

\* lookups by callers that write to what they were returned
NextAlias ==
    \/ CallGetCombinedInfo
    \/ CallerSetsInfoField
    \/ CallerAppendsGround
    \/ CallerEditsStateRecord
    \/ CallerEditsCityRecord
    \/ Done

SpecAlias == Init /\ [][NextAlias]_vars

(***************************************************************************)
(* Callers that run at the same time.  Each call runs in its own frame:    *)
(* its arguments and local variables (relevant_angles, angle,              *)
(* evidence_count, info, prompt) belong to the call, the catalogs are the  *)
(* class attributes all calls read.  A step is one statement, or one pass  *)
(* through a loop body, of the operation; steps of different callers       *)
(* interleave in any order.                                                *)
(***************************************************************************)
\* the angle each of the nine checks of analyze_situation appends, in source
\* order
CHECK_ANGLES ==
    <<"procedural_error", "signage_issues", "meter_malfunction",
      "emergency_circumstances", "payment_display_issue", "zone_confusion",
      "first_time_leniency", "disability_accommodation", "time_discrepancy">>

\* the facts concurrent callers classify: two checks apply, and none applies
ConcurrentFacts ==
    {[has_errors |-> "True", time_incorrect |-> "True", citation_number |-> "'text'"],
     [paid_for_parking |-> "True"]}

\* the strength evaluations concurrent callers ask for: all the evidence of
\* an angle, evidence of another kind, and an angle outside the catalog
ConcurrentStrengthArgs ==
    {[angle_key |-> "procedural_error",
      evidence |-> [k \in RequiredKeys("procedural_error") |-> "True"]],
     [angle_key |-> "procedural_error",
      evidence |-> [k \in {FOREIGN_EVIDENCE_KEYS[1]} |-> "True"]],
     [angle_key |-> "unknown_angle",
      evidence |-> [k \in RequiredKeys("procedural_error") |-> "True"]]}

\* the lookups concurrent callers make
ConcurrentLookups ==
    {[city_name |-> Str("San Francisco"), state_code |-> Str(<<"C", "A">>)],
     [city_name |-> NoneValue, state_code |-> Str(<<"Z", "Z">>)]}

\* the prompt concurrent callers build
ConcurrentPromptArgs ==
    {[citation_details |-> << <<<<"c", "i", "t", "a", "t", "i", "o", "n", "_", "n", "u", "m", "b", "e", "r">>, "'ABC123'">> >>,
      location_info |-> get_combined_info(Str("San Francisco"), Str(<<"C", "A">>)).value,
      angle |-> APPEAL_ANGLES["procedural_error"],
      evidence |-> << <<<<"p", "h", "o", "t", "o", "s">>, "True">> >>]}

\* the frame of a caller that enters operation o with arguments a at label
Entered(o, a, label) == [IdleFrame EXCEPT !.pc = label, !.op = o, !.args = a, !.i = 1]

\* "return r" in the frame
Returning(frame, r) == [frame EXCEPT !.pc = "returned", !.ret = r]

\* a variant of AppendAngle in which relevant_angles is one list shared by
\* all the calls
AppendAngle_shared_list(fs, t, key) ==
    [u \in DOMAIN fs |-> [fs[u] EXCEPT !.relevant_angles = Append(@, key)]]

\* relevant_angles.append(key) in the call of caller t
AppendAngle(fs, t, key) == [fs EXCEPT ![t].relevant_angles = Append(@, key)]

EnterAnalyzeSituation(t) ==
    /\ frames[t].pc = "idle"
    /\ \E citation_details \in ConcurrentFacts :
           frames' = [frames EXCEPT ![t] =
                         Entered("analyze_situation",
                                 [citation_details |-> citation_details], "checks")]
    /\ UNCHANGED <<pc, op, args, ret, requests, catalogs, workflow>>

\* the i-th check of analyze_situation
StepCheck(t) ==
    /\ frames[t].pc = "checks"
    /\ LET frame == frames[t]
           applies == \E k \in Range(TRIGGER_FACTS[frame.i]) :
                          Truthy(DictGet(frame.args.citation_details, k))
           appended == IF applies THEN AppendAngle(frames, t, CHECK_ANGLES[frame.i])
                       ELSE frames
       IN  frames' = [appended EXCEPT ![t].i = frame.i + 1,
                                      ![t].pc = IF frame.i = Len(CHECK_ANGLES)
                                                THEN "default" ELSE "checks"]
    /\ UNCHANGED <<pc, op, args, ret, requests, catalogs, workflow>>

\* "if not relevant_angles: ..." and the return of analyze_situation
StepDefault(t) ==
    /\ frames[t].pc = "default"
    /\ LET frame == frames[t]
       IN  frames' = [frames EXCEPT ![t] =
               Returning(frame,
                         Return(IF frame.relevant_angles = <<>>
                                THEN <<"procedural_error", "signage_issues",
                                       "first_time_leniency">>
                                ELSE frame.relevant_angles))]
    /\ UNCHANGED <<pc, op, args, ret, requests, catalogs, workflow>>

EnterGetAngleStrength(t) ==
    /\ frames[t].pc = "idle"
    /\ \E a \in ConcurrentStrengthArgs :
           frames' = [frames EXCEPT ![t] = Entered("get_angle_strength", a, "lookup")]
    /\ UNCHANGED <<pc, op, args, ret, requests, catalogs, workflow>>

\* angle = cls.get_angle(angle_key); if not angle: return "weak"
StepLookupAngle(t) ==
    /\ frames[t].pc = "lookup"
    /\ LET frame == frames[t]
           angle == get_angle(frame.args.angle_key)
       IN  frames' = [frames EXCEPT ![t] =
               IF angle = NoneValue THEN Returning(frame, Return("weak"))
               ELSE [frame EXCEPT !.angle = angle, !.pc = "count"]]
    /\ UNCHANGED <<pc, op, args, ret, requests, catalogs, workflow>>

\* one pass of the loop over angle.required_evidence
StepCountEvidence(t) ==
    /\ frames[t].pc = "count"
    /\ LET frame == frames[t]
           required_evidence == frame.angle.required_evidence
           found == frame.i <= Len(required_evidence)
                    /\ Truthy(DictGet(frame.args.evidence,
                                      EvidenceKey(required_evidence[frame.i])))
       IN  frames' = [frames EXCEPT ![t] =
               [frame EXCEPT !.evidence_count = @ + (IF found THEN 1 ELSE 0),
                             !.i = @ + 1,
                             !.pc = IF frame.i >= Len(required_evidence)
                                    THEN "band" ELSE "count"]]
    /\ UNCHANGED <<pc, op, args, ret, requests, catalogs, workflow>>

\* the ratio and the band returned
StepBand(t) ==
    /\ frames[t].pc = "band"
    /\ LET frame == frames[t]
       IN  frames' = [frames EXCEPT ![t] =
               Returning(frame, Return(StrengthBand(frame.evidence_count,
                                                    Len(frame.angle.required_evidence))))]
    /\ UNCHANGED <<pc, op, args, ret, requests, catalogs, workflow>>

EnterGetCombinedInfo(t) ==
    /\ frames[t].pc = "idle"
    /\ \E a \in ConcurrentLookups :
           frames' = [frames EXCEPT ![t] = Entered("get_combined_info", a, "info")]
    /\ UNCHANGED <<pc, op, args, ret, requests, catalogs, workflow>>

\* info = {"state": ..., "city": None, "available_grounds": ...}
StepBuildInfo(t) ==
    /\ frames[t].pc = "info"
    /\ LET frame == frames[t]
       IN  frames' = [frames EXCEPT ![t] =
               [frame EXCEPT !.info = [state |-> get_state_info(frame.args.state_code).value,
                                       city |-> NoneValue,
                                       available_grounds |-> common_appeal_grounds],
                             !.pc = "city"]]
    /\ UNCHANGED <<pc, op, args, ret, requests, catalogs, workflow>>

\* "if city_name: ..." and the return of get_combined_info
StepCityInfo(t) ==
    /\ frames[t].pc = "city"
    /\ LET frame == frames[t]
           city_name == frame.args.city_name
           city_info == get_city_info(city_name).value
           matches == city_name.t = "str" /\ city_name.v # ""
                      /\ city_info # NoneValue
                      /\ city_info.state = UpperOf(frame.args.state_code).value
           info == IF matches THEN [frame.info EXCEPT !.city = city_info] ELSE frame.info
       IN  frames' = [frames EXCEPT ![t] =
                         Returning([frame EXCEPT !.info = info], Return(info))]
    /\ UNCHANGED <<pc, op, args, ret, requests, catalogs, workflow>>

EnterBuildAppealPrompt(t) ==
    /\ frames[t].pc = "idle"
    /\ \E a \in ConcurrentPromptArgs :
           frames' = [frames EXCEPT ![t] =
               [Entered("_build_appeal_prompt", a, "facts") EXCEPT
                   !.prompt = <<APPEAL_PROMPT_HEAD, a.angle.name,
                                "\nSTRATEGY DESCRIPTION: ", a.angle.description,
                                "\n\nCITATION DETAILS:\n">>]]
    /\ UNCHANGED <<pc, op, args, ret, requests, catalogs, workflow>>

\* the loop over citation_details.items()
StepPromptFacts(t) ==
    /\ frames[t].pc = "facts"
    /\ LET frame == frames[t]
       IN  frames' = [frames EXCEPT ![t] =
               [frame EXCEPT !.prompt = @ \o EntryLines(DictItems(frame.args.citation_details)),
                             !.pc = "jurisdiction"]]
    /\ UNCHANGED <<pc, op, args, ret, requests, catalogs, workflow>>

\* the jurisdiction part
StepPromptJurisdiction(t) ==
    /\ frames[t].pc = "jurisdiction"
    /\ LET frame == frames[t]
           location_info == frame.args.location_info
       IN  frames' = [frames EXCEPT ![t] =
               [frame EXCEPT !.prompt = @ \o <<"\n\nJURISDICTION INFORMATION:\n">>
                                 \o AppealPromptState(GetOr(location_info, "state", EMPTY_DICT))
                                 \o AppealPromptCity(GetOr(location_info, "city", EMPTY_DICT)),
                             !.pc = "evidence"]]
    /\ UNCHANGED <<pc, op, args, ret, requests, catalogs, workflow>>

\* the loop over evidence.items()
StepPromptEvidence(t) ==
    /\ frames[t].pc = "evidence"
    /\ LET frame == frames[t]
       IN  frames' = [frames EXCEPT ![t] =
               [frame EXCEPT !.prompt = @ \o <<"\n\nAVAILABLE EVIDENCE:\n">>
                                          \o EntryLines(DictItems(frame.args.evidence)),
                             !.pc = "key_points"]]
    /\ UNCHANGED <<pc, op, args, ret, requests, catalogs, workflow>>

\* the key points, the closing instructions and the return
StepPromptKeyPoints(t) ==
    /\ frames[t].pc = "key_points"
    /\ LET frame == frames[t]
           angle == frame.args.angle
           prompt == frame.prompt \o <<"\n\nKEY POINTS FOR THIS APPEAL ANGLE:\n">>
                     \o BulletLines(angle.strength_indicators)
                     \o <<APPEAL_PROMPT_STRUCTURE, angle.name, APPEAL_PROMPT_TAIL>>
       IN  frames' = [frames EXCEPT ![t] =
                         Returning([frame EXCEPT !.prompt = prompt], Return(prompt))]
    /\ UNCHANGED <<pc, op, args, ret, requests, catalogs, workflow>>

\* the caller takes the outcome; the frame of the call is gone
Leave(t) ==
    /\ frames[t].pc = "returned"
    /\ frames' = [frames EXCEPT ![t] = IdleFrame]
    /\ UNCHANGED <<pc, op, args, ret, requests, catalogs, workflow>>

NextConcurrent ==
    \/ \E t \in Callers : EnterAnalyzeSituation(t)
    \/ \E t \in Callers : StepCheck(t)
    \/ \E t \in Callers : StepDefault(t)
    \/ \E t \in Callers : EnterGetAngleStrength(t)
    \/ \E t \in Callers : StepLookupAngle(t)
    \/ \E t \in Callers : StepCountEvidence(t)
    \/ \E t \in Callers : StepBand(t)
    \/ \E t \in Callers : EnterGetCombinedInfo(t)
    \/ \E t \in Callers : StepBuildInfo(t)
    \/ \E t \in Callers : StepCityInfo(t)
    \/ \E t \in Callers : EnterBuildAppealPrompt(t)
    \/ \E t \in Callers : StepPromptFacts(t)
    \/ \E t \in Callers : StepPromptJurisdiction(t)
    \/ \E t \in Callers : StepPromptEvidence(t)
    \/ \E t \in Callers : StepPromptKeyPoints(t)
    \/ \E t \in Callers : Leave(t)

SpecConcurrent == Init /\ [][NextConcurrent]_vars

(***************************************************************************)
(* The entry points: the constructor of the generator, the formatter the   *)
(* tests call, the handlers of the web interface, quick_appeal and the     *)
(* questionnaire's evaluation of the evidence it gathered.                 *)
(***************************************************************************)
\* the api_key argument: absent, empty, and the key of the tests
ApiKeyInputs == {NoneValue, Str(""), Str("test_key")}

\* the environment variable: not set, set to nothing, set to a key
EnvironmentKeyInputs == {NoneValue, Str(""), Str("env_key")}

\* the values of the entries passed to _format_dict
FormatValues == {"None", "False", "''", "True", "'ABC123'"}

\* a dict in insertion order as an optional argument
Dict(d) == [t |-> "dict", v |-> d]

\* the arguments of _format_dict: None and the dicts of at most MaxEntries
\* entries
FormatDictInputs ==
    {NoneValue} \cup {Dict(d) : d \in OrderedDicts(PROMPT_FACT_KEYS, FormatValues, MaxEntries)}

\* AppealGenerator(api_key=...): requests holds the calls of genai.configure
CallAppealGenerator ==
    /\ pc = "idle"
    /\ workflow = NoWorkflow
    /\ \E api_key \in ApiKeyInputs, environment_key \in EnvironmentKeyInputs :
           LET done == __init__(api_key, environment_key)
           IN  CompletedWith("__init__",
                             [api_key |-> api_key, environment_key |-> environment_key],
                             done.result, done.configured)

CallFormatDict ==
    /\ pc = "idle"
    /\ workflow = NoWorkflow
    /\ \E data \in FormatDictInputs :
           Completed("_format_dict", [data |-> data],
                     Return(_format_dict(IF data.t = "dict" THEN DictItems(data.v)
                                         ELSE <<>>)))

\* what select_from_list returns for the evidence types: the types of the
\* numbers typed, at most MaxSelected of them, or all types for 'all'
EvidenceSelections ==
    UNION {[1..n -> Range(EVIDENCE_TYPES)] : n \in 1..MaxSelected} \cup {EVIDENCE_TYPES}

\* the descriptions typed for n evidence types: a text or nothing for each of
\* the first MaxSelected, nothing for the others
EvidenceDetails(n) ==
    {[i \in 1..n |-> IF i <= MaxSelected THEN d[i] ELSE "''"] :
        d \in [1..MaxSelected -> {"'text'", "''"}]}

CallGatherEvidenceDetails ==
    /\ pc = "idle"
    /\ workflow = NoWorkflow
    /\ \E has_evidence \in BOOLEAN, selected \in EvidenceSelections :
           \E details \in EvidenceDetails(Len(selected)) :
               Completed("gather_evidence_details",
                         [has_evidence |-> has_evidence, selected |-> selected,
                          details |-> details],
                         Return(gather_evidence_details(has_evidence, selected, details)))

\* the situations and the evidence identify_appeal_angles is called with:
\* the questionnaire's citation_details for some yes answers, and the
\* evidence of one evidence type or of all
IdentifySituations ==
    {[i \in 1..Len(TEXT_ANSWERS) |-> <<KEY_CHARS[TEXT_ANSWERS[i][1]], TEXT_ANSWERS[i][2]>>]
        \o SituationEntries(YES_NO_QUESTIONS, yes) :
        yes \in SUBSET {"unclear_signage", "time_incorrect", "paid_for_parking"}}

IdentifyEvidence ==
    {gather_evidence_details(TRUE, selected, [i \in 1..Len(selected) |-> "'text'"]) :
        selected \in {<<EVIDENCE_TYPES[i]>> : i \in 1..Len(EVIDENCE_TYPES)} \cup {EVIDENCE_TYPES}}
    \cup {<<>>}

CallIdentifyAppealAngles ==
    /\ pc = "idle"
    /\ workflow = NoWorkflow
    /\ \E citation_details \in IdentifySituations, evidence \in IdentifyEvidence,
          use_all \in BOOLEAN :
           Completed("identify_appeal_angles",
                     [citation_details |-> citation_details, evidence |-> evidence,
                      use_all |-> use_all, chosen |-> <<1>>],
                     Return(identify_appeal_angles(citation_details, evidence, use_all, <<1>>)))

\* request bodies: the situation flags sent, the jurisdiction, the angles
\* selected, and the evidence (two items named as time_discrepancy requires
\* them) or the request for no analysis
WEB_FLAGS == {"first_violation", "incorrect_vehicle_info", "meter_malfunction"}

WebBodies ==
    {[k \in flags |-> "True"] @@ ("citation_number" :> "'ABC123'")
        @@ state @@ city @@ selected @@ rest :
        flags \in SUBSET WEB_FLAGS,
        state \in {EMPTY_DICT, "state" :> Str(<<"C", "A">>), "state" :> Str(<<"Z", "Z">>)},
        city \in {EMPTY_DICT, "city" :> Str("San Francisco")},
        selected \in {EMPTY_DICT, "selected_angles" :> <<>>,
                      "selected_angles" :> <<"zone_confusion", "unknown_angle">>},
        rest \in {EMPTY_DICT,
                  ("evidence" :> <<<<"W", "i", "t", "n", "e", "s", "s", " ", "s", "t", "a", "t", "e", "m", "e", "n", "t", "s">>,
                                   <<"G", "P", "S", " ", "o", "r", " ", "p", "h", "o", "n", "e", " ", "l", "o", "c", "a", "t", "i", "o", "n", " ", "d", "a", "t", "a">>>>)
                      @@ ("evidence_description" :> "'photo of the sign'"),
                  "include_analysis" :> "False"}}

\* what the generation capability answers a handler or a step of the
\* workflow: a text or an exception
EntryOutcomes ==
    {Return(<<"Dear Hearing Officer, I respectfully request dismissal of this citation.">>),
     Raise("quota exceeded")}

\* the state codes passed to quick_appeal
QuickAppealStates == {Str(<<"C", "A">>), Str(<<"n", "y">>), Str(<<"Z", "Z">>)}

CallAnalyzeCitation ==
    /\ pc = "idle"
    /\ workflow = NoWorkflow
    /\ \E data \in WebBodies :
           Completed("analyze_citation", [data |-> data], Return(analyze_citation(data)))

CallGenerateAppeal ==
    /\ pc = "idle"
    /\ workflow = NoWorkflow
    /\ \E data \in WebBodies, environment_key \in {NoneValue, Str("env_key")} :
           \E outcome \in EntryOutcomes, analysis_outcome \in EntryOutcomes :
               LET done == generate_appeal(data, environment_key, outcome, analysis_outcome)
               IN  CompletedWith("generate_appeal",
                                 [data |-> data, environment_key |-> environment_key],
                                 Return(done.response), done.requests)

CallQuickAppeal ==
    /\ pc = "idle"
    /\ workflow = NoWorkflow
    /\ \E state \in QuickAppealStates, outcome \in GenerationOutcomes :
           LET done == quick_appeal("'ABC123'", state, "'text'", outcome)
           IN  CompletedWith("quick_appeal",
                             [citation_number |-> "'ABC123'", state |-> state,
                              violation_type |-> "'text'"],
                             done.result, done.requests)

(***************************************************************************)
(* run_complete_workflow, one action per step.  The run is in workflow:    *)
(* the step it is at, self.all_data, the local appeals, the events so far  *)
(* (what was asked of the generation capability, put to the user, printed  *)
(* or written, in order) and, once finished, what the call returns or      *)
(* raises.  What the user answers and what the generation capability gives *)
(* are chosen at the step that reads them.                                 *)
(***************************************************************************)
\* the answers typed to the questionnaire
QuestionnaireAnswers ==
    {[yes |-> yes, has_evidence |-> has_evidence,
      evidence_types |-> <<<<"W", "i", "t", "n", "e", "s", "s", " ", "s", "t", "a", "t", "e", "m", "e", "n", "t", "s">>,
                           <<"C", "r", "e", "d", "i", "t", " ", "c", "a", "r", "d", "/", "b", "a", "n", "k", " ", "s", "t", "a", "t", "e", "m", "e", "n", "t", " ", "s", "h", "o", "w", "i", "n", "g", " ", "p", "a", "y", "m", "e", "n", "t">>>>,
      evidence_details |-> <<"'text'", "''">>, additional_info |-> "''",
      state |-> place[1], city |-> place[2], use_all |-> use_all, chosen |-> <<1>>] :
        yes \in {{}, {"incorrect_vehicle_info", "emergency_situation"}},
        has_evidence \in BOOLEAN,
        place \in {<<Str(<<"c", "a">>), Str("San Francisco")>>, <<Str(<<"Z", "Z">>), Str("")>>},
        use_all \in BOOLEAN}

\* what the generation capability answers suggest_follow_up_questions: a
\* numbered list, six questions, headings only, nothing, or an exception
FollowUpOutcomes ==
    {Return(<<"1", ".", " ", "W", "h", "e", "n", " ", "d", "i", "d", " ", "y", "o", "u", " ", "p", "a", "r", "k", "?", "\n", "2", ")", " ", "W", "h", "e", "r", "e", " ", "w", "a", "s", " ", "t", "h", "e", " ", "s", "i", "g", "n", "?", "\n", "\n", "-", " ", "W", "h", "o", " ", "s", "a", "w", " ", "i", "t", "?">>),
     Return(<<"1", ".", " ", "A", "?", "\n", "2", ".", " ", "B", "?", "\n", "3", ".", " ", "C", "?", "\n", "4", ".", " ", "D", "?", "\n", "5", ".", " ", "E", "?", "\n", "6", ".", " ", "F", "?">>),
     Return(<<"#", " ", "Q", "u", "e", "s", "t", "i", "o", "n", "s", "\n", " ", " ", "\n", "#", "1">>),
     Return(<<>>),
     Raise("quota exceeded")}

\* the answers typed to n follow-up questions: a text to each or to none
FollowUpReplies(n) == {[i \in 1..n |-> reply] : reply \in {"'text'", "''"}}

\* the run moves to step s with all_data d and appeals a after the events es
\* and the requests reqs
MovedWith(s, d, a, es, reqs) ==
    /\ workflow' = [workflow EXCEPT !.step = s, !.all_data = d, !.appeals = a,
                                    !.events = workflow.events \o es]
    /\ requests' = requests \o reqs
    /\ UNCHANGED <<pc, op, args, ret, catalogs, frames>>

Moved(s, d, es, reqs) == MovedWith(s, d, workflow.appeals, es, reqs)

\* the run ends with result r after the events es
Finished(r, es) ==
    /\ workflow' = [workflow EXCEPT !.step = "finished", !.result = r,
                                    !.events = workflow.events \o es]
    /\ UNCHANGED <<pc, op, args, ret, requests, catalogs, frames>>

Running(s) == pc = "run_complete_workflow" /\ workflow.step = s

\* the event of a yes/no question of the workflow and the answer typed
Asked(question, answer) == question \o (IF answer THEN ":yes" ELSE ":no")

\* n times the event ev
Times(n, ev) == [i \in 1..n |-> ev]

\* step 1 (lines 64-66): the questionnaire
RunQuestionnaire ==
    /\ pc = "idle"
    /\ workflow = NoWorkflow
    /\ \E answers \in QuestionnaireAnswers :
           /\ workflow' = [step |-> "analysis",
                           all_data |-> run_full_questionnaire(answers),
                           appeals |-> EMPTY_DICT,
                           events |-> <<"questionnaire">>,
                           result |-> NoneValue]
           /\ args' = [answers |-> answers]
    /\ pc' = "run_complete_workflow"
    /\ op' = "run_complete_workflow"
    /\ ret' = NoneValue
    /\ requests' = <<>>
    /\ UNCHANGED <<catalogs, frames>>

\* a variant of StepAnalysis in which a failed analysis ends the run
StepAnalysis_stops_on_failure ==
    /\ Running("analysis")
    /\ \E outcome \in EntryOutcomes :
           LET all_data == workflow.all_data
               analysis == analyze_citation_strength(all_data.citation_details,
                                                     all_data.location_info.regulations,
                                                     all_data.evidence, outcome)
           IN  IF analysis.result.value.success
               THEN Moved("follow_up",
                          all_data @@ ("ai_analysis" :> analysis.result.value.analysis),
                          <<"generate:analysis", "print:analysis">>, analysis.requests)
               ELSE /\ Finished(Return(all_data), <<"generate:analysis", "warn:analysis">>)
                    /\ analysis.requests # <<>>

\* step 2 (lines 69-82): the analysis of the case
StepAnalysis ==
    /\ Running("analysis")
    /\ \E outcome \in EntryOutcomes :
           LET all_data == workflow.all_data
               analysis == analyze_citation_strength(all_data.citation_details,
                                                     all_data.location_info.regulations,
                                                     all_data.evidence, outcome)
           IN  IF analysis.result.value.success
               THEN Moved("follow_up",
                          all_data @@ ("ai_analysis" :> analysis.result.value.analysis),
                          <<"generate:analysis", "print:analysis">>, analysis.requests)
               ELSE Moved("follow_up", all_data,
                          <<"generate:analysis", "warn:analysis">>, analysis.requests)

\* step 3 (lines 85-109): the follow-up questions
StepFollowUp ==
    /\ Running("follow_up")
    /\ LET all_data == workflow.all_data
       IN  IF all_data.selected_angles = <<>>
           THEN Moved("individual", all_data, <<>>, <<>>)
           ELSE
           LET first_angle == get_angle(all_data.selected_angles[1])
           IN  \E ask_followup \in BOOLEAN :
                   IF ~(ask_followup /\ first_angle # NoneValue)
                   THEN Moved("individual", all_data, <<Asked("follow-up", ask_followup)>>, <<>>)
                   ELSE
                   \E outcome \in FollowUpOutcomes :
                       LET done == suggest_follow_up_questions(all_data.citation_details,
                                                               first_angle, outcome)
                           questions == done.result.value
                       IN  IF questions = <<>>
                           THEN Moved("individual", all_data,
                                      <<Asked("follow-up", TRUE), "generate:questions",
                                        "warn:questions">>,
                                      done.requests)
                           ELSE
                           \E replies \in FollowUpReplies(Len(questions)) :
                               LET additional_info ==
                                       ask_follow_up_questions(questions, replies, 1)
                               IN  Moved("individual",
                                         [all_data EXCEPT !.citation_details =
                                             DictUpdate(@, additional_info)],
                                         <<Asked("follow-up", TRUE), "generate:questions">>
                                         \o Times(Len(questions), "ask:question")
                                         \o <<"print:follow-up">>,
                                         done.requests)

\* step 4, first part (lines 112-131): the separate appeals, on request
StepIndividual ==
    /\ Running("individual")
    /\ LET all_data == workflow.all_data
       IN  \E generate_separate \in BOOLEAN :
               IF ~generate_separate
               THEN Moved("comprehensive", all_data, <<Asked("separate", FALSE)>>, <<>>)
               ELSE
               \E outcome \in EntryOutcomes :
                   LET done == generate_multi_angle_appeal(
                                   all_data.citation_details,
                                   all_data.location_info.regulations,
                                   all_data.selected_angles, all_data.evidence,
                                   [i \in 1..Len(all_data.selected_angles) |-> outcome])
                   IN  MovedWith("comprehensive", all_data,
                                 "individual" :> done.result.value,
                                 <<Asked("separate", TRUE)>>
                                 \o Times(Len(done.requests), "generate:individual"),
                                 done.requests)

\* step 4, second part (lines 134-145): the comprehensive appeal; appeals is
\* stored in all_data at line 145; an exception is printed and raised again
\* (lines 158-160)
StepComprehensive ==
    /\ Running("comprehensive")
    /\ \E outcome \in EntryOutcomes :
           LET all_data == workflow.all_data
               done == generate_comprehensive_appeal(
                           all_data.citation_details,
                           all_data.location_info.regulations,
                           all_data.selected_angles, all_data.evidence, outcome)
           IN  IF done.result.kind = "raise"
               THEN Finished(done.result, <<"print:error">>)
               ELSE LET appeals == workflow.appeals
                                   @@ ("comprehensive" :> done.result.value)
                    IN  MovedWith("display", all_data @@ ("appeals" :> appeals), appeals,
                                  <<"generate:comprehensive">>, done.requests)

\* _display_results
StepDisplay ==
    /\ Running("display")
    /\ LET appeals == GetOr(workflow.all_data, "appeals", EMPTY_DICT)
           comprehensive == IF "comprehensive" \in DOMAIN appeals
                            THEN <<"display:comprehensive">> ELSE <<>>
       IN  IF "individual" \notin DOMAIN appeals
           THEN Moved("save", workflow.all_data, comprehensive, <<>>)
           ELSE \E show_individual \in BOOLEAN :
                    Moved("save", workflow.all_data,
                          comprehensive \o <<Asked("show", show_individual)>>
                          \o (IF show_individual
                              THEN Times(Cardinality(DOMAIN appeals.individual),
                                         "display:individual")
                              ELSE <<>>),
                          <<>>)

\* _save_results, and the return of all_data
StepSave ==
    /\ Running("save")
    /\ LET all_data == workflow.all_data
           appeals == GetOr(all_data, "appeals", EMPTY_DICT)
       IN  \E save \in BOOLEAN :
               Finished(Return(all_data),
                        <<Asked("save", save)>>
                        \o (IF ~save THEN <<>>
                            ELSE (IF "comprehensive" \in DOMAIN appeals
                                  THEN <<"write:comprehensive">> ELSE <<>>)
                                 \o (IF "individual" \in DOMAIN appeals
                                     THEN Times(Cardinality(DOMAIN appeals.individual),
                                                "write:individual")
                                     ELSE <<>>)
                                 \o (IF "ai_analysis" \in DOMAIN all_data
                                     THEN <<"write:analysis">> ELSE <<>>)
                                 \o <<"write:summary">>))

\* KeyboardInterrupt (lines 155-157) while the user is asked a question of
\* the workflow: the run returns {}
Interrupt ==
    /\ pc = "run_complete_workflow"
    /\ workflow.step \in {"follow_up", "individual", "display", "save"}
    /\ Finished(Return(EMPTY_DICT), <<"warn:interrupted">>)

\* the call returns
WorkflowReturns ==
    /\ Running("finished")
    /\ pc' = "returned"
    /\ ret' = workflow.result
    /\ workflow' = NoWorkflow
    /\ UNCHANGED <<op, args, requests, catalogs, frames>>

NextEntry ==
    \/ CallAppealGenerator
    \/ CallFormatDict
    \/ CallAnalyzeCitation
    \/ CallGenerateAppeal
    \/ CallQuickAppeal
    \/ CallGatherEvidenceDetails
    \/ CallIdentifyAppealAngles
    \/ RunQuestionnaire
    \/ StepAnalysis
    \/ StepFollowUp
    \/ StepIndividual
    \/ StepComprehensive
    \/ StepDisplay
    \/ StepSave
    \/ Interrupt
    \/ WorkflowReturns
    \/ Done

SpecEntry == Init /\ [][NextEntry]_vars

(***************************************************************************)
(* Properties of the situation classifier.                                 *)
(***************************************************************************)
\* a call of operation o has completed
Returned(o) == pc = "returned" /\ op = o

\* the rule table of the classifier as specified: angle key and trigger facts,
\* in priority order
PRIORITY_TABLE ==
    << [angle |-> "procedural_error",
        facts |-> {"has_errors", "missing_info", "incorrect_vehicle_info"}],
       [angle |-> "signage_issues",
        facts |-> {"unclear_signage", "no_visible_signs", "conflicting_signs"}],
       [angle |-> "meter_malfunction",
        facts |-> {"meter_malfunction", "payment_failed", "paid_but_cited"}],
       [angle |-> "emergency_circumstances", facts |-> {"emergency_situation"}],
       [angle |-> "payment_display_issue",
        facts |-> {"paid_not_displayed", "receipt_not_visible"}],
       [angle |-> "zone_confusion", facts |-> {"unclear_zone", "zone_boundary_unclear"}],
       [angle |-> "first_time_leniency", facts |-> {"first_violation"}],
       [angle |-> "disability_accommodation",
        facts |-> {"disability_related", "has_disability_placard"}],
       [angle |-> "time_discrepancy", facts |-> {"time_incorrect", "timeline_conflicts"}] >>

FALLBACK_ANGLES == <<"procedural_error", "signage_issues", "first_time_leniency">>

\* a rule is satisfied iff at least one of its facts is present and truthy
RuleSatisfied(rule, facts) == \E k \in rule.facts : k \in DOMAIN facts /\ Truthy(facts[k])

\* the angle keys of the satisfied rules, each once, in priority order
SatisfiedAngles(facts) ==
    LET Sat(rule) == RuleSatisfied(rule, facts)
        rules == SelectSeq(PRIORITY_TABLE, Sat)
    IN  [i \in 1..Len(rules) |-> rules[i].angle]

\* C1: when at least one trigger rule is satisfied, analyze_situation returns
\* exactly the angle keys of the satisfied rules, each once, in the fixed
\* priority order of the rule table.
C1_SatisfiedRulesInPriorityOrder ==
    Returned("analyze_situation") /\ SatisfiedAngles(args.citation_details) # <<>>
        => ret = Return(SatisfiedAngles(args.citation_details))

\* C1 witness: the facts unclear_signage, first_violation and meter_malfunction
\* were classified as signage_issues, meter_malfunction, first_time_leniency.
C1_Witness ==
    /\ Returned("analyze_situation")
    /\ args.citation_details =
           [k \in {"unclear_signage", "first_violation", "meter_malfunction"} |-> "True"]
    /\ ret.value = <<"signage_issues", "meter_malfunction", "first_time_leniency">>

\* C2: when no trigger rule is satisfied, analyze_situation returns exactly
\* the fallback sequence, and it returns the fallback for no facts whose
\* satisfied rules are other than none or exactly the three fallback rules.
C2_FallbackIffNoRule ==
    Returned("analyze_situation") =>
        LET sat == SatisfiedAngles(args.citation_details)
        IN  /\ sat = <<>> => ret = Return(FALLBACK_ANGLES)
            /\ ret = Return(FALLBACK_ANGLES) => sat \in {<<>>, FALLBACK_ANGLES}

\* C2 witness: facts that hold only falsy trigger facts were classified as the
\* fallback sequence.
C2_Witness ==
    /\ Returned("analyze_situation")
    /\ args.citation_details = [k \in {"has_errors", "first_violation"} |->
                                   IF k = "has_errors" THEN "False" ELSE "''"]
    /\ ret.value = FALLBACK_ANGLES

\* C3: the sequence analyze_situation returns is non-empty, holds no angle
\* key twice and has at most nine elements.
C3_NonEmptyDuplicateFree ==
    Returned("analyze_situation") =>
        /\ ret.kind = "return"
        /\ Len(ret.value) >= 1
        /\ Len(ret.value) <= 9
        /\ \A i, j \in 1..Len(ret.value) : ret.value[i] = ret.value[j] => i = j

\* C3 witness: facts that hold two truthy facts of one rule were classified
\* as that rule's angle, once.
C3_Witness ==
    /\ Returned("analyze_situation")
    /\ args.citation_details = [k \in {"has_errors", "missing_info"} |-> "True"]
    /\ ret.value = <<"procedural_error">>

(***************************************************************************)
(* Properties of the evidence-strength evaluator.                          *)
(***************************************************************************)
\* the evidence key of a required-evidence item as specified: the item text
\* with every space replaced by an underscore and every letter lower-cased
DerivedKey(text) ==
    [i \in 1..Len(text) |-> IF text[i] = " " THEN "_" ELSE LowerChar(text[i])]

\* the derived key of every required-evidence item of every catalog angle
DERIVED_KEYS ==
    [k \in DOMAIN APPEAL_ANGLES |->
        [i \in 1..Len(APPEAL_ANGLES[k].required_evidence) |->
            DerivedKey(APPEAL_ANGLES[k].required_evidence[i])]]

\* the number of required-evidence items of a catalog angle that have a truthy
\* entry under their derived key
Matched(angle_key, evidence) ==
    Cardinality({i \in 1..Len(DERIVED_KEYS[angle_key]) :
        /\ DERIVED_KEYS[angle_key][i] \in DOMAIN evidence
        /\ Truthy(evidence[DERIVED_KEYS[angle_key][i]])})

\* the three evidence keys of test_get_angle_strength_strong
TEST_STRONG_EVIDENCE_KEYS ==
    { <<"p","h","o","t","o","s","_","s","h","o","w","i","n","g","_","p","a","r","k","i",
        "n","g","_","s","p","o","t","_","a","n","d","_","n","e","a","r","b","y","_","s",
        "i","g","n","a","g","e">>,
      <<"p","h","o","t","o","s","_","o","f","_","a","n","y","_","o","b","s","t","r","u",
        "c","t","i","o","n","s","_","o","r","_","d","a","m","a","g","e","d","_","s","i",
        "g","n","s">>,
      <<"p","h","o","t","o","s","_","s","h","o","w","i","n","g","_","p","e","r","s","p",
        "e","c","t","i","v","e","_","f","r","o","m","_","d","r","i","v","e","r","'","s",
        "_","p","o","s","i","t","i","o","n">> }

\* C4: for a catalog angle with n required-evidence items of which m have a
\* truthy entry under the derived key, get_angle_strength returns strong iff
\* m/n >= 0.7, moderate iff 0.4 <= m/n < 0.7 and weak iff m/n < 0.4 (weak when
\* n = 0); 3 of 4 is strong (also with the keys as the test writes them), 0 of
\* n is weak and 2 of 5 is moderate.
C4_StrengthBands ==
    Returned("get_angle_strength") /\ args.angle_key \in DOMAIN APPEAL_ANGLES =>
        LET n == Len(APPEAL_ANGLES[args.angle_key].required_evidence)
            m == Matched(args.angle_key, args.evidence)
        IN  /\ ret.kind = "return"
            /\ ret.value \in {"strong", "moderate", "weak"}
            /\ ret.value = "strong" <=> n # 0 /\ 10 * m >= 7 * n
            /\ ret.value = "moderate" <=> n # 0 /\ 4 * n <= 10 * m /\ 10 * m < 7 * n
            /\ ret.value = "weak" <=> n = 0 \/ 10 * m < 4 * n
            /\ n = 4 /\ m = 3 => ret.value = "strong"
            /\ m = 0 => ret.value = "weak"
            /\ n = 5 /\ m = 2 => ret.value = "moderate"
            /\ (/\ args.angle_key = "signage_issues"
                /\ args.evidence = [k \in TEST_STRONG_EVIDENCE_KEYS |-> "True"])
               => ret.value = "strong"

\* C4 witness: an angle with five required items of which exactly two are
\* supplied was evaluated as moderate.
C4_Witness ==
    /\ Returned("get_angle_strength")
    /\ args.angle_key = "emergency_circumstances"
    /\ Len(APPEAL_ANGLES[args.angle_key].required_evidence) = 5
    /\ Matched(args.angle_key, args.evidence) = 2
    /\ ret.value = "moderate"

\* the order of the bands
BandRank(band) == CASE band = "weak" -> 0 [] band = "moderate" -> 1 [] band = "strong" -> 2

\* the evidence set after the caller adds (or overwrites) one entry
WithEntry(evidence, key, value) ==
    [k \in DOMAIN evidence \cup {key} |-> IF k = key THEN value ELSE evidence[k]]

\* the truthy values an evidence entry may take
TruthyEvidenceValues == {v \in EvidenceValues : Truthy(v)}

\* the keys an added entry may have: any derived key of the catalog and any
\* foreign key
AddedKeys(angle_key) ==
    EvidenceKeyPool(angle_key) \cup Range(FOREIGN_EVIDENCE_KEYS)
    \cup RequiredKeys("procedural_error")

\* C5: adding a truthy entry to the evidence set, whether or not its key
\* matches a required item, never lowers the band get_angle_strength returns
\* (weak < moderate < strong).
C5_MonotonicInEvidence ==
    Returned("get_angle_strength") =>
        \A key \in AddedKeys(args.angle_key) : \A value \in TruthyEvidenceValues :
            LET more == get_angle_strength(args.angle_key,
                                           WithEntry(args.evidence, key, value))
            IN  /\ more.kind = "return"
                /\ ret.kind = "return"
                /\ BandRank(more.value) >= BandRank(ret.value)

\* C5 witness: an evaluation returned moderate for an evidence set to which
\* adding one matching truthy entry gives strong.
C5_Witness ==
    /\ Returned("get_angle_strength")
    /\ ret.value = "moderate"
    /\ \E key \in RequiredKeys("signage_issues") :
           /\ args.angle_key = "signage_issues"
           /\ ~Truthy(DictGet(args.evidence, key))
           /\ get_angle_strength(args.angle_key,
                                 WithEntry(args.evidence, key, "True")).value = "strong"

\* C6: for an angle key outside the catalog get_angle_strength returns weak
\* for every evidence set and does not raise, and get_angle returns None.
C6_UnknownAngleIsWeak ==
    /\ Returned("get_angle_strength") /\ args.angle_key \notin Range(APPEAL_ANGLE_KEYS)
           => ret = Return("weak")
    /\ Returned("get_angle") /\ args.angle_key \notin Range(APPEAL_ANGLE_KEYS)
           => ret = Return(NoneValue)

\* C6 witness: an unknown angle key was evaluated as weak although the
\* evidence set holds a truthy entry for every required item of signage_issues.
C6_Witness ==
    /\ Returned("get_angle_strength")
    /\ args.angle_key = "unknown_angle"
    /\ \A key \in RequiredKeys("signage_issues") : Truthy(DictGet(args.evidence, key))
    /\ ret = Return("weak")

(***************************************************************************)
(* Properties of the jurisdiction catalog.                                 *)
(***************************************************************************)
\* the call was made with a state code (a string)
WithStateCode == args.state_code.t = "str"

\* the state code of the call, upper-cased
UpperCode == StrUpper(args.state_code.v)

\* C7: get_combined_info(city, state) always returns the common-grounds list;
\* its state field is the state record iff the upper-cased code is in the
\* state catalog and None otherwise; its city field is the city record iff a
\* city name was given, that exact name is in the city catalog and that
\* record's state equals the upper-cased code, and None otherwise.
C7_CombinedInfoFields ==
    Returned("get_combined_info") /\ WithStateCode =>
        LET city == args.city_name
            cityMatches == /\ city.t = "str"
                           /\ city.v \in Range(CITY_NAMES)
                           /\ CITY_REGULATIONS[city.v].state = UpperCode
        IN  /\ ret.kind = "return"
            /\ DOMAIN ret.value = {"state", "city", "available_grounds"}
            /\ ret.value.available_grounds = COMMON_APPEAL_GROUNDS
            /\ ret.value.state = IF UpperCode \in Range(STATE_CODES)
                                 THEN STATE_REGULATIONS[UpperCode] ELSE NoneValue
            /\ ret.value.city = IF cityMatches
                                THEN CITY_REGULATIONS[city.v] ELSE NoneValue

\* C7 witness: San Francisco with the code NY gave the New York state record
\* and no city record.
C7_Witness ==
    /\ Returned("get_combined_info")
    /\ args.city_name = Str("San Francisco")
    /\ args.state_code = Str(<<"N", "Y">>)
    /\ ret.value.state.name = "New York"
    /\ ret.value.city = NoneValue

\* C8: state lookups are case-insensitive: get_state_info, get_combined_info
\* and get_cities_for_state return for a state code what they return for the
\* upper-cased code; city lookups are case-sensitive: get_city_info returns a
\* record only for an exact catalog name.
C8_StateCaseInsensitiveCityExact ==
    /\ Returned("get_state_info") /\ WithStateCode
           => ret = get_state_info(Str(UpperCode))
    /\ Returned("get_combined_info") /\ WithStateCode
           => ret = get_combined_info(args.city_name, Str(UpperCode))
    /\ Returned("get_cities_for_state") /\ WithStateCode
           => ret = get_cities_for_state(Str(UpperCode))
    /\ Returned("get_city_info")
           => ret = IF args.city_name.t = "str" /\ args.city_name.v \in Range(CITY_NAMES)
                    THEN Return(CITY_REGULATIONS[args.city_name.v])
                    ELSE Return(NoneValue)

\* C8 witness: the code "ca" was looked up and gave the California record.
C8_Witness ==
    /\ Returned("get_state_info")
    /\ args.state_code = Str(<<"c", "a">>)
    /\ ret.kind = "return"
    /\ ret.value # NoneValue
    /\ ret.value.name = "California"

\* the city names whose record's state is code, in city-catalog order
CitiesOf(code) ==
    LET InState(city) == CITY_REGULATIONS[city].state = code
    IN  SelectSeq(CITY_NAMES, InState)

\* C9: get_cities_for_state(code) returns exactly the city names whose
\* record's state equals the upper-cased code, in city-catalog order, and the
\* empty list for a code with no cities or an unknown code.
C9_CitiesForState ==
    Returned("get_cities_for_state") /\ WithStateCode =>
        /\ ret = Return(CitiesOf(UpperCode))
        /\ (\A city \in Range(CITY_NAMES) : CITY_REGULATIONS[city].state # UpperCode)
               => ret = Return(<<>>)

\* C9 witness: the code "ca" gave San Francisco, then Los Angeles.
C9_Witness ==
    /\ Returned("get_cities_for_state")
    /\ args.state_code = Str(<<"c", "a">>)
    /\ ret = Return(<<"San Francisco", "Los Angeles">>)

\* C10: the jurisdiction catalog never raises: every call of get_state_info,
\* get_city_info, get_combined_info and get_cities_for_state with the state
\* and city a caller passes returns a value.
C10_CatalogNeverRaises ==
    /\ pc = "returned"
    /\ op \in {"get_state_info", "get_city_info", "get_combined_info",
               "get_cities_for_state"}
    => ret.kind = "return"

(***************************************************************************)
(* Properties of the angle listing.                                        *)
(***************************************************************************)
\* C11: listing and lookup round-trip: for every key of get_all_angles(), and
\* for every entry of the /api/appeal-angles listing, get_angle(key) returns
\* a present angle whose name and description equal the listed ones.
C11_ListingLookupRoundTrip ==
    /\ Returned("get_all_angles") =>
           \A key \in DOMAIN ret.value :
               /\ get_angle(key) # NoneValue
               /\ get_angle(key).name = ret.value[key].name
               /\ get_angle(key).description = ret.value[key].description
    /\ Returned("get_appeal_angles") =>
           \A i \in 1..Len(ret.value) :
               /\ get_angle(ret.value[i].key) # NoneValue
               /\ get_angle(ret.value[i].key).name = ret.value[i].name
               /\ get_angle(ret.value[i].key).description = ret.value[i].description

\* C11 witness: the web listing returned its nine entries, the first being
\* the procedural-error angle.
C11_Witness ==
    /\ Returned("get_appeal_angles")
    /\ Len(ret.value) = 9
    /\ ret.value[1].key = "procedural_error"
    /\ ret.value[1].name = "Procedural Error"

(***************************************************************************)
(* Properties of the request assembler and of the generator.               *)
(***************************************************************************)
\* C12: the request assembler cannot fail: for all facts, evidence, angle
\* lists and every jurisdiction value get_combined_info returns (the state
\* absent for an unknown code, the city absent), building the single-angle
\* request and building the comprehensive request complete with a text and
\* do not raise.
C12_AssemblerNeverRaises ==
    /\ pc = "returned" /\ op = "_build_appeal_prompt" => ret.kind = "return"
    /\ pc = "returned" /\ op = "generate_comprehensive_appeal" =>
           /\ ret.kind = "return"
           /\ Len(requests) = 1

\* the keys of the list that get_angle resolves, in list order: one per
\* generation call of generate_multi_angle_appeal
ResolvedKeys(angle_keys) ==
    LET Resolves(key) == key \in DOMAIN APPEAL_ANGLES
    IN  SelectSeq(angle_keys, Resolves)

\* the request of a returned call failed
Failed(request) == request.outcome.kind = "raise"

\* C13: when the generation capability fails during a batch or a
\* comprehensive appeal, what the caller receives for it can be told from a
\* generated text: it is not a value that a successful generation also gives.
C13_FailureDistinguishable ==
    /\ Returned("generate_comprehensive_appeal") /\ Len(requests) = 1
       /\ Failed(requests[1]) =>
           \A t \in GENERATED_TEXTS : Flat(ret.value) # t
    /\ Returned("generate_multi_angle_appeal") =>
           LET keys == ResolvedKeys(args.selected_angles)
           IN  \A i \in 1..Len(requests) :
                   /\ Failed(requests[i])
                   /\ \A j \in (i + 1)..Len(requests) : keys[j] # keys[i]
                   => \A t \in GENERATED_TEXTS :
                          Flat(ret.value[APPEAL_ANGLES[keys[i]].name]) # t

\* C14: analyze_citation_strength never raises and hands on the outcome of
\* its one generation call in one of two tagged shapes: success with the
\* generated text as analysis, or failure with the error description, for
\* every facts, evidence and jurisdiction input, the state absent included.
C14_AnalysisTagged ==
    pc = "returned" /\ op = "analyze_citation_strength" =>
        /\ ret.kind = "return"
        /\ Len(requests) = 1
        /\ requests[1].outcome.kind = "return" =>
               ret.value = [success |-> TRUE, analysis |-> requests[1].outcome.value]
        /\ requests[1].outcome.kind = "raise" =>
               ret.value = [success |-> FALSE, error |-> <<requests[1].outcome.exc>>]

\* C14 witness: with the state absent, a failed generation came back as a
\* tagged failure.
C14_Witness ==
    /\ Returned("analyze_citation_strength")
    /\ args.location_info.state = NoneValue
    /\ Failed(requests[1])
    /\ ret.value = [success |-> FALSE, error |-> <<"quota exceeded">>]

\* C15: generate_multi_angle_appeal returns a mapping with exactly one entry
\* per distinct resolvable key of the list, keyed by the display name of the
\* angle: display names are unique in the catalog, so two distinct valid keys
\* give two entries; a key that does not resolve gives no entry and no
\* generation call.
C15_OneEntryPerDistinctAngle ==
    Returned("generate_multi_angle_appeal") =>
        LET keys == ResolvedKeys(args.selected_angles)
        IN  /\ ret.kind = "return"
            /\ DOMAIN ret.value = {APPEAL_ANGLES[k].name : k \in Range(keys)}
            /\ Cardinality(DOMAIN ret.value) = Cardinality(Range(keys))
            /\ Len(requests) = Len(keys)
            /\ \A k1, k2 \in DOMAIN appeal_angles :
                   k1 # k2 => appeal_angles[k1].name # appeal_angles[k2].name

\* C15 witness: two distinct valid keys gave two entries and two generation
\* calls.
C15_Witness ==
    /\ Returned("generate_multi_angle_appeal")
    /\ Range(args.selected_angles) = {"procedural_error", "zone_confusion"}
    /\ DOMAIN ret.value = {"Procedural Error", "Unclear Zone or Time Restrictions"}
    /\ Len(requests) = 2

\* what _generate_single_angle_appeal returns for an outcome of the call
TextOf(outcome) ==
    IF outcome.kind = "return" THEN outcome.value
    ELSE <<"Error generating appeal: ", outcome.exc>>

\* C16: generate_multi_angle_appeal processes the keys in list order and makes
\* one generation call per occurrence, duplicates included; for an angle that
\* occurs more than once the result holds the text of its last occurrence.
C16_InOrderLastOccurrenceWins ==
    Returned("generate_multi_angle_appeal") =>
        LET keys == ResolvedKeys(args.selected_angles)
        IN  /\ Len(requests) = Len(keys)
            /\ \A i \in 1..Len(requests) :
                   /\ requests[i].prompt[2] = APPEAL_ANGLES[keys[i]].name
                   /\ (\A j \in (i + 1)..Len(requests) : keys[j] # keys[i])
                      => ret.value[APPEAL_ANGLES[keys[i]].name] = TextOf(requests[i].outcome)

\* C16 witness: the same angle twice, two calls with different answers, and
\* the result holds the second answer.
C16_Witness ==
    /\ Returned("generate_multi_angle_appeal")
    /\ args.selected_angles = <<"zone_confusion", "zone_confusion">>
    /\ Len(requests) = 2
    /\ requests[1].outcome # requests[2].outcome
    /\ requests[2].outcome.kind = "return"
    /\ ret.value["Unclear Zone or Time Restrictions"] = requests[2].outcome.value

\* the per-angle summary blocks of the angles of keys: name, description and
\* at most the first three strength indicators
RECURSIVE SummaryBlocks(_)
SummaryBlocks(keys) ==
    IF keys = <<>> THEN <<>>
    ELSE LET angle == APPEAL_ANGLES[Head(keys)]
             points == angle.strength_indicators
             Point(i) == <<"  - ", points[i], "\n">>
         IN  <<"\n", angle.name, ":\n", "Description: ", angle.description, "\n",
               "Key points:\n">>
             \o (IF Len(points) >= 1 THEN Point(1) ELSE <<>>)
             \o (IF Len(points) >= 2 THEN Point(2) ELSE <<>>)
             \o (IF Len(points) >= 3 THEN Point(3) ELSE <<>>)
             \o SummaryBlocks(Tail(keys))

\* the part of a comprehensive prompt between the header of the angles and
\* the closing instructions
AngleSection(prompt) ==
    LET start == CHOOSE i \in 1..Len(prompt) :
                     prompt[i] = "\n\nAPPEAL ANGLES TO INCORPORATE:\n"
    IN  SubSeq(prompt, start + 1, Len(prompt) - 1)

\* C17: every call of generate_comprehensive_appeal makes exactly one
\* generation call, whose request holds one summary block (name, description,
\* at most the first three strength indicators) per resolvable key of the
\* list, in list order and once per occurrence; a key that does not resolve
\* gives no block and no error.
C17_OneBlockPerResolvedKey ==
    pc = "returned" /\ op = "generate_comprehensive_appeal" =>
        /\ ret.kind = "return"
        /\ Len(requests) = 1
        /\ AngleSection(requests[1].prompt) = SummaryBlocks(ResolvedKeys(args.all_angles))

\* the pieces of a text between the piece from and the piece to
Section(text, from, to) ==
    LET start == CHOOSE i \in 1..Len(text) : text[i] = from
        end == CHOOSE i \in 1..Len(text) : text[i] = to
    IN  SubSeq(text, start + 1, end - 1)

\* the lines of the entries of a dict whose value is truthy, in insertion
\* order
RECURSIVE TruthyLines(_)
TruthyLines(data) ==
    IF data = <<>> THEN <<>>
    ELSE LET Value(entry) == entry[2]
             Kept(entry) == Value(entry) \notin {"None", "False", "''", "0"}
             kept == SelectSeq(data, Kept)
         IN  IF kept = <<>> THEN <<>>
             ELSE EntryLine(DictItems(<<Head(kept)>>)[1]) \o TruthyLines(Tail(kept))

\* piece follows piece before in the text
Follows(text, before, piece) ==
    \E i \in 1..(Len(text) - 1) : text[i] = before /\ text[i + 1] = piece

\* C18: in the single-angle request a fact or evidence entry is rendered iff
\* its value is truthy, in insertion order, and the value of every rendered
\* entry, the state name and the angle's display name appear in the text; the
\* city block, with the specific rules and the online-appeal flag, appears
\* iff a city was resolved, and the state block iff a state was resolved.
C18_RenderedIffTruthy ==
    Returned("_build_appeal_prompt") =>
        LET prompt == ret.value
            facts == Section(prompt, "\n\nCITATION DETAILS:\n",
                             "\n\nJURISDICTION INFORMATION:\n")
            jurisdiction == Section(prompt, "\n\nJURISDICTION INFORMATION:\n",
                                    "\n\nAVAILABLE EVIDENCE:\n")
            evidence == Section(prompt, "\n\nAVAILABLE EVIDENCE:\n",
                                "\n\nKEY POINTS FOR THIS APPEAL ANGLE:\n")
            state == args.location_info.state
            city == args.location_info.city
        IN  /\ facts = TruthyLines(args.citation_details)
            /\ evidence = TruthyLines(args.evidence)
            /\ \A i \in 1..Len(args.citation_details) :
                   Truthy(args.citation_details[i][2])
                   => Follows(facts, ": ", STR_OF[args.citation_details[i][2]])
            /\ \A i \in 1..Len(args.evidence) :
                   Truthy(args.evidence[i][2])
                   => Follows(evidence, ": ", STR_OF[args.evidence[i][2]])
            /\ Follows(prompt, APPEAL_PROMPT_HEAD, args.angle.name)
            /\ "State: " \in Range(jurisdiction) <=> state # NoneValue
            /\ state # NoneValue => Follows(jurisdiction, "State: ", state.name)
            /\ "\nCity-Specific Information:\n" \in Range(jurisdiction) <=> city # NoneValue
            /\ "Online Appeal Available: " \in Range(jurisdiction) <=> city # NoneValue
            /\ city # NoneValue =>
                   /\ Range(city.specific_rules) \subseteq Range(jurisdiction)
                   /\ Follows(jurisdiction, "Online Appeal Available: ",
                              IF city.online_appeal THEN "True" ELSE "False")

\* C18 witness: a request for Houston, Texas, whose first fact is a "no" and
\* whose second fact is a text: only the second is rendered, and the city
\* block says that online appeal is not available.
C18_Witness ==
    /\ Returned("_build_appeal_prompt")
    /\ Len(args.citation_details) = 2
    /\ args.citation_details[1][2] = "False"
    /\ args.citation_details[2][2] = "'ABC123'"
    /\ args.location_info.city # NoneValue
    /\ args.location_info.state.name = "Texas"
    /\ Follows(ret.value, "Online Appeal Available: ", "False")
    /\ "ABC123" \in Range(ret.value)

(***************************************************************************)
(* Properties of unrecognized keys.                                        *)
(***************************************************************************)
\* the nineteen facts the classifier reads
TriggerFactKeys == UNION {Range(TRIGGER_FACTS[i]) : i \in 1..Len(TRIGGER_FACTS)}

\* a mapping without the entry of key
WithoutEntry(mapping, key) == [k \in DOMAIN mapping \ {key} |-> mapping[k]]

\* the mappings that differ from mapping in one entry and agree with it on
\* the truthiness of the entries of the keys read: an entry of another key
\* of foreign set to any of values or removed, and an entry of a read key
\* changed to a value of the same truthiness, or removed when it is falsy
Agreeing(mapping, read, foreign, values) ==
    {WithEntry(mapping, k, v) : k \in foreign \ read, v \in values}
    \cup {WithoutEntry(mapping, k) : k \in (DOMAIN mapping \cap foreign) \ read}
    \cup UNION {{WithEntry(mapping, k, v) :
                    v \in {w \in values : Truthy(w) <=> Truthy(mapping[k])}} :
                k \in DOMAIN mapping \cap read}
    \cup {WithoutEntry(mapping, k) :
             k \in {r \in DOMAIN mapping \cap read : ~Truthy(mapping[r])}}

\* the derived keys of the required evidence of an angle key, none for an
\* unknown key
RequiredKeysOf(angle_key) ==
    IF angle_key \in DOMAIN DERIVED_KEYS THEN Range(DERIVED_KEYS[angle_key]) ELSE {}

\* a text holds the pieces of part next to each other
Contains(text, part) ==
    \E start \in 1..(Len(text) - Len(part) + 1) :
        SubSeq(text, start, start + Len(part) - 1) = part

\* C19: unrecognized keys do not influence decisions.  A facts mapping that
\* agrees with the classified one on the truthiness of the nineteen trigger
\* facts gets the same analyze_situation result, whatever other keys it
\* holds; an evidence set that agrees with the evaluated one on the
\* truthiness of the angle's derived required-evidence keys gets the same
\* get_angle_strength result; and the prompt builder still renders the
\* entries of unrecognized keys whose value is truthy.  The mappings compared
\* differ in one entry.
C19_UnrecognizedKeysIgnored ==
    /\ Cardinality(TriggerFactKeys) = 19
    /\ Returned("analyze_situation") =>
           \A other \in Agreeing(args.citation_details, TriggerFactKeys,
                                 OTHER_FACTS \cup {"violation_type"}, FactValues) :
               analyze_situation(other) = ret.value
    /\ Returned("get_angle_strength") =>
           \A other \in Agreeing(args.evidence, RequiredKeysOf(args.angle_key),
                                 AddedKeys(args.angle_key), EvidenceValues \cup {"None"}) :
               get_angle_strength(args.angle_key, other) = ret
    /\ Returned("_build_appeal_prompt") =>
           /\ \A i \in 1..Len(args.citation_details) :
                  /\ Flat(args.citation_details[i][1]) \notin TriggerFactKeys
                  /\ Truthy(args.citation_details[i][2])
                  => Contains(ret.value, EntryLine(DictItems(args.citation_details)[i]))
           /\ \A i \in 1..Len(args.evidence) :
                  /\ \A k \in DOMAIN DERIVED_KEYS :
                         args.evidence[i][1] \notin Range(DERIVED_KEYS[k])
                  /\ Truthy(args.evidence[i][2])
                  => Contains(ret.value, EntryLine(DictItems(args.evidence)[i]))

\* C19 witness: a facts mapping holding only a citation number, a key no check
\* reads, was classified like the empty mapping, with the default set.
C19_Witness ==
    /\ Returned("analyze_situation")
    /\ DOMAIN args.citation_details = {"citation_number"}
    /\ Truthy(args.citation_details["citation_number"])
    /\ ret.value = <<"procedural_error", "signage_issues", "first_time_leniency">>
    /\ ret.value = analyze_situation(<<>>)

(***************************************************************************)
(* Properties of the catalogs as shared objects.                           *)
(***************************************************************************)
\* what get_combined_info returns for a state code and a city from the
\* catalogs as they are at process start
PristineInfo(city_name, state_code) ==
    LET code == StrUpper(state_code.v)
    IN  [state |-> IF code \in DOMAIN STATE_REGULATIONS
                   THEN STATE_REGULATIONS[code] ELSE NoneValue,
         city |-> IF /\ city_name.t = "str"
                     /\ city_name.v \in DOMAIN CITY_REGULATIONS
                     /\ CITY_REGULATIONS[city_name.v].state = code
                  THEN CITY_REGULATIONS[city_name.v] ELSE NoneValue,
         available_grounds |-> COMMON_APPEAL_GROUNDS]

\* C20: the catalogs stay read-only and every get_combined_info call builds a
\* fresh value: whatever callers did to the values returned to them before
\* (to their fields, their grounds list, their state or city record), the
\* angle, state, city and grounds catalogs are as at process start and a
\* lookup returns what it returned at process start.
C20_CatalogsReadOnly ==
    /\ catalogs = <<APPEAL_ANGLES, STATE_REGULATIONS, CITY_REGULATIONS,
                    COMMON_APPEAL_GROUNDS>>
    /\ pc = "idle" =>
           \A lookup \in LOCATION_LOOKUPS :
               get_combined_info(lookup[1], lookup[2])
                   = Return(PristineInfo(lookup[1], lookup[2]))

(***************************************************************************)
(* Properties of concurrent callers.                                       *)
(***************************************************************************)
\* the outcome of the call of a frame when the operation runs alone
Alone(frame) ==
    CASE frame.op = "analyze_situation" ->
             Return(analyze_situation(frame.args.citation_details))
      [] frame.op = "get_angle_strength" ->
             get_angle_strength(frame.args.angle_key, frame.args.evidence)
      [] frame.op = "get_combined_info" ->
             get_combined_info(frame.args.city_name, frame.args.state_code)
      [] frame.op = "_build_appeal_prompt" ->
             Return(_build_appeal_prompt(frame.args.citation_details,
                                         frame.args.location_info, frame.args.angle,
                                         frame.args.evidence))

\* C21: whatever the other callers do in the meantime, a call of
\* analyze_situation, get_angle_strength, get_combined_info or
\* _build_appeal_prompt returns what the same call returns when it runs
\* alone, and while it runs its locals hold nothing of another call: the
\* angles listed so far are angles its own facts satisfy, and the evidence
\* counted so far is at most the evidence of its own arguments.
C21_ConcurrentCallsAsAlone ==
    \A t \in Callers :
        LET frame == frames[t]
        IN  /\ frame.pc = "returned" => frame.ret = Alone(frame)
            /\ frame.op = "analyze_situation" =>
                   \A n \in 1..Len(frame.relevant_angles) :
                       \E c \in 1..Len(CHECK_ANGLES) :
                           /\ CHECK_ANGLES[c] = frame.relevant_angles[n]
                           /\ \E k \in Range(TRIGGER_FACTS[c]) :
                                  Truthy(DictGet(frame.args.citation_details, k))
            /\ frame.op = "get_angle_strength" =>
                   frame.evidence_count
                       <= Cardinality({k \in DOMAIN frame.args.evidence :
                                          Truthy(frame.args.evidence[k])})

\* a call of analyze_situation has returned the two angles of its facts
\* while a call with other facts is in the middle of its checks
C21_Witness ==
    /\ frames[1].pc = "returned" /\ frames[1].op = "analyze_situation"
    /\ frames[1].ret.value = <<"procedural_error", "time_discrepancy">>
    /\ frames[2].pc = "checks" /\ frames[2].i = 5
    /\ frames[2].args.citation_details # frames[1].args.citation_details

(***************************************************************************)
(* Properties of the constructor and of the formatter.                     *)
(***************************************************************************)
\* C22 as stated: without argument and without environment variable the
\* constructor raises ValueError and configures nothing, and with any
\* api_key argument, the empty string included, the generator's api_key is
\* that argument.
C22_AnyArgumentTakesPrecedence ==
    Returned("__init__") =>
        /\ (args.api_key = NoneValue /\ args.environment_key = NoneValue)
               => (ret = Raise("ValueError") /\ requests = <<>>)
        /\ args.api_key # NoneValue
               => (ret.kind = "return" /\ ret.value.api_key = args.api_key)

\* C22: when the api_key argument and the environment variable are both
\* absent or empty the constructor raises ValueError and the generation
\* client is never configured; with a non-empty api_key argument the
\* generator's api_key is that argument whatever the environment variable,
\* and with an absent or empty argument it is the non-empty environment
\* variable; the client is configured with the generator's api_key.
C22_NonEmptyArgumentTakesPrecedence ==
    Returned("__init__") =>
        LET Given(s) == s # NoneValue /\ s # Str("")
        IN  /\ (~Given(args.api_key) /\ ~Given(args.environment_key))
                   => (ret = Raise("ValueError") /\ requests = <<>>)
            /\ Given(args.api_key)
                   => (ret.kind = "return" /\ ret.value.api_key = args.api_key)
            /\ (~Given(args.api_key) /\ Given(args.environment_key))
                   => (ret.kind = "return" /\ ret.value.api_key = args.environment_key)
            /\ ret.kind = "return" => requests = <<[api_key |-> ret.value.api_key]>>

\* a generator built with the argument "test_key" while the environment
\* variable holds another key
C22_Witness ==
    /\ Returned("__init__")
    /\ args.api_key = Str("test_key") /\ args.environment_key = Str("env_key")
    /\ ret.kind = "return" /\ ret.value.api_key = Str("test_key")

\* the title-cased keys of the entries passed to _format_dict
TITLED_KEYS ==
    (<<"c", "i", "t", "a", "t", "i", "o", "n", "_", "n", "u", "m", "b", "e", "r">>
        :> "Citation Number")
    @@ (<<"f", "i", "r", "s", "t", "_", "v", "i", "o", "l", "a", "t", "i", "o", "n">>
        :> "First Violation")
    @@ (<<"V", "I", "N", "_", "n", "u", "m", "b", "e", "r">> :> "Vin Number")

\* the text of the values passed to _format_dict
VALUE_TEXTS ==
    [v \in {"True", "'ABC123'"} |-> IF v = "True" THEN "True" ELSE "ABC123"]

\* one line per entry of data whose value is truthy, in insertion order
RECURSIVE ExpectedLines(_)
ExpectedLines(data) ==
    IF data = <<>> THEN ""
    ELSE (IF Head(data)[2] \in DOMAIN VALUE_TEXTS
          THEN "- " \o TITLED_KEYS[Head(data)[1]] \o ": " \o VALUE_TEXTS[Head(data)[2]] \o "\n"
          ELSE "")
         \o ExpectedLines(Tail(data))

\* C23: _format_dict returns exactly "None provided" for None, for the empty
\* dict and for a dict whose values are all falsy; otherwise it returns one
\* line "- <Title Cased Key>: <value>" per truthy entry, in insertion order,
\* and nothing for the falsy entries.
C23_FormatDict ==
    Returned("_format_dict") =>
        LET data == args.data
            text == Flat(ret.value)
        IN  IF data.t = "None" \/ ExpectedLines(data.v) = ""
            THEN text = "None provided"
            ELSE text = ExpectedLines(data.v)

\* a dict whose first entry is falsy and whose second entry is rendered
C23_Witness ==
    /\ Returned("_format_dict")
    /\ args.data.t = "dict" /\ Len(args.data.v) = 2
    /\ args.data.v[1][2] = "''" /\ args.data.v[2][2] = "'ABC123'"
    /\ Flat(ret.value) = "- Vin Number: ABC123\n"


(***************************************************************************)
(* Properties of the entry points for a state outside the database.        *)
(***************************************************************************)
\* the state code is a string that get_state_info does not find
UnknownState(state) ==
    state.t = "str" /\ UpperOf(state).value \notin DOMAIN state_regulations

\* a run of the workflow has finished without being interrupted
RunFinished ==
    /\ workflow.step = "finished"
    /\ \A i \in 1..Len(workflow.events) : workflow.events[i] # "warn:interrupted"

\* C24: a state code that is not in the regulation database is still served:
\* a finished run of run_complete_workflow for such a state returns all_data
\* with the comprehensive appeal, quick_appeal returns the appeal text, and
\* generate_appeal (with the API key configured) answers 200 with the appeal,
\* each after a generation request was made.
C24_UnknownStateStillServed ==
    /\ (RunFinished /\ workflow.all_data.location_info.state \notin DOMAIN state_regulations)
           => /\ workflow.result.kind = "return"
              /\ "appeals" \in DOMAIN workflow.result.value
              /\ "comprehensive" \in DOMAIN workflow.result.value.appeals
    /\ (Returned("quick_appeal") /\ UnknownState(args.state))
           => ret.kind = "return" /\ requests # <<>>
    /\ (Returned("generate_appeal") /\ StrTruthy(args.environment_key)
        /\ UnknownState(GetOr(args.data, "state", NoneValue)))
           => /\ ret.value.status = 200
              /\ ret.value.body.success
              /\ requests # <<>>

(***************************************************************************)
(* Properties of the order of the steps of run_complete_workflow.          *)
(***************************************************************************)
\* the step of the workflow each event belongs to: 1 questionnaire,
\* 2 strength analysis, 3 follow-up questions, 4 separate appeals,
\* 5 comprehensive appeal, 6 display, 7 save, 8 the end by an exception or an
\* interrupt
STEP_OF ==
    [ev \in {"questionnaire"} |-> 1]
    @@ [ev \in {"generate:analysis", "print:analysis", "warn:analysis"} |-> 2]
    @@ [ev \in {"follow-up:yes", "follow-up:no", "generate:questions", "ask:question",
                "print:follow-up", "warn:questions"} |-> 3]
    @@ [ev \in {"separate:yes", "separate:no", "generate:individual"} |-> 4]
    @@ [ev \in {"generate:comprehensive"} |-> 5]
    @@ [ev \in {"display:comprehensive", "show:yes", "show:no", "display:individual"} |-> 6]
    @@ [ev \in {"save:yes", "save:no", "write:comprehensive", "write:individual",
                "write:analysis", "write:summary"} |-> 7]
    @@ [ev \in {"print:error", "warn:interrupted"} |-> 8]

\* the event ev has happened in the run
Happened(ev) == \E i \in 1..Len(workflow.events) : workflow.events[i] = ev

\* how often the event ev has happened in the run
Count(ev) == Cardinality({i \in 1..Len(workflow.events) : workflow.events[i] = ev})

\* a run has reached its return statement (line 153): it was ended neither by
\* an interrupt of the user nor by an exception
RunReturned == RunFinished /\ workflow.result.kind = "return"

\* no event of the set later follows an event of the set earlier
NeverAfter(later, earlier) ==
    \A i, j \in 1..Len(workflow.events) :
        (i < j /\ workflow.events[i] \in earlier) => workflow.events[j] \notin later

GENERATION_EVENTS ==
    {"generate:analysis", "generate:questions", "generate:individual", "generate:comprehensive"}

\* what the display and save steps put on the screen and into files
RESULT_EVENTS ==
    {"display:comprehensive", "display:individual", "write:comprehensive",
     "write:individual", "write:analysis", "write:summary"}

\* the events of a run are in the order of the steps, and a run that returns
\* has gone through the questionnaire, the analysis, the comprehensive
\* generation (once), the display and the question of the save step
StepsInOrder ==
    /\ \A i, j \in 1..Len(workflow.events) :
           i < j => STEP_OF[workflow.events[i]] <= STEP_OF[workflow.events[j]]
    /\ RunReturned =>
           /\ Count("questionnaire") = 1
           /\ Count("generate:analysis") = 1
           /\ Count("generate:comprehensive") = 1
           /\ Happened("separate:yes") \/ Happened("separate:no")
           /\ "comprehensive" \in DOMAIN workflow.result.value.appeals
           /\ Happened("display:comprehensive")
           /\ Happened("save:yes") \/ Happened("save:no")

\* the separate appeals are generated exactly when the user answers yes
BatchOnlyOnYes ==
    /\ Happened("generate:individual") => Happened("separate:yes")
    /\ Happened("separate:no") => "individual" \notin DOMAIN workflow.appeals
    /\ Happened("separate:yes") =>
           /\ "individual" \in DOMAIN workflow.appeals
           /\ Count("generate:individual") = Len(workflow.all_data.selected_angles)

\* once the analysis step is done, ai_analysis is in all_data exactly when the
\* analysis request succeeded, and is then the text generated
AnalysisOnlyOnSuccess ==
    Happened("generate:analysis") =>
        /\ requests[1].prompt[1] = ANALYSIS_PROMPT_HEAD
        /\ ("ai_analysis" \in DOMAIN workflow.all_data) = (requests[1].outcome.kind = "return")
        /\ "ai_analysis" \in DOMAIN workflow.all_data =>
               workflow.all_data.ai_analysis = requests[1].outcome.value
        /\ Happened("print:analysis") = (requests[1].outcome.kind = "return")
        /\ Happened("warn:analysis") = (requests[1].outcome.kind = "raise")

QuestionRequests ==
    {i \in 1..Len(requests) : requests[i].prompt[1] = FOLLOW_UP_PROMPT_HEAD}

\* the generation of the follow-up questions of the run has failed
QuestionsFailed ==
    /\ workflow # NoWorkflow
    /\ \E i \in QuestionRequests : requests[i].outcome.kind = "raise"

\* at most five questions are put to the user
AtMostFiveQuestions == workflow # NoWorkflow => Count("ask:question") <= 5

\* C26: when the generation of the follow-up questions fails, no question is
\* put to the user, citation_details stays as the questionnaire left it and
\* the warning is printed; and never more than five questions are put.
C26_FailedQuestionsAskNothing ==
    /\ QuestionsFailed =>
           /\ ~Happened("ask:question")
           /\ workflow.all_data.citation_details
                  = run_full_questionnaire(args.answers).citation_details
           /\ Happened("warn:questions")
    /\ AtMostFiveQuestions

(***************************************************************************)
(* Properties of the web handlers.                                         *)
(***************************************************************************)
\* the display names of the angles analyze_citation suggests for the body
SuggestedNames(data) ==
    LET suggested_angles == analyze_citation(data).body.suggested_angles
    IN  [i \in 1..Len(suggested_angles) |-> suggested_angles[i].name]

\* C27: for every request body without selected_angles that generate_appeal
\* answers with an appeal, angles_used holds the display names, in the same
\* order, of the angles analyze_citation suggests for the same body.
C27_EndpointsClassifyAlike ==
    (/\ Returned("generate_appeal")
     /\ "selected_angles" \notin DOMAIN args.data
     /\ ret.value.status = 200)
        => ret.value.body.angles_used = SuggestedNames(args.data)

(***************************************************************************)
(* Properties of the evidence the entry points collect.                    *)
(***************************************************************************)
\* the derived key of every required-evidence item of the catalog
AllRequiredKeys == UNION {RequiredKeysOf(angle_key) : angle_key \in DOMAIN appeal_angles}

\* no key of the evidence is a derived required-evidence key, and the evidence
\* makes every catalog angle weak
NeverCounts(evidence) ==
    /\ \A i \in 1..Len(evidence) : evidence[i][1] \notin AllRequiredKeys
    /\ \A angle_key \in DOMAIN appeal_angles :
           get_angle_strength(angle_key, EvidenceMapping(evidence)) = Return("weak")

\* C28: the evidence gather_evidence_details returns and the evidence
\* generate_appeal builds from a request body have no key that is a derived
\* required-evidence key, get_angle_strength is weak for every catalog angle
\* on them, and every strength identify_appeal_angles shows is weak.
C28_CollectedEvidenceNeverCounts ==
    /\ Returned("gather_evidence_details") => NeverCounts(ret.value)
    /\ (Returned("generate_appeal") /\ StrTruthy(args.environment_key))
           => NeverCounts(WebEvidence(args.data))
    /\ Returned("identify_appeal_angles") =>
           /\ NeverCounts(args.evidence)
           /\ \A i \in 1..Len(ret.value.shown) : ret.value.shown[i].strength = "weak"

\* the questionnaire has recorded "Witness statements" and a description of
\* it, an item time_discrepancy requires under the key witness_statements
C28_Witness ==
    /\ Returned("gather_evidence_details")
    /\ \E i \in 1..Len(ret.value) :
           /\ Flat(ret.value[i][1]) = "has_witness_statements"
           /\ ret.value[i][2] = "True"
    /\ \E i \in 1..Len(ret.value) :
           /\ Flat(ret.value[i][1]) = "witness_statements_details"
           /\ ret.value[i][2] = "'text'"
    /\ Flat(EvidenceKey(APPEAL_ANGLES["time_discrepancy"].required_evidence[4]))
           = "witness_statements"

(***************************************************************************)
(* Properties of the classified angles in the catalog.                     *)
(***************************************************************************)
\* every derived key of the required evidence of the angle, supplied
AllRequiredEvidence(angle_key) == [k \in RequiredKeys(angle_key) |-> "True"]

\* the key is in the catalog with required evidence, strong with all of its
\* required evidence and weak with none
Classified(angle_key) ==
    /\ get_angle(angle_key) # NoneValue
    /\ get_angle(angle_key).required_evidence # <<>>
    /\ get_angle_strength(angle_key, AllRequiredEvidence(angle_key)) = Return("strong")
    /\ get_angle_strength(angle_key, EMPTY_DICT) = Return("weak")

\* C29: every key analyze_situation returns resolves through get_angle to an
\* angle with required evidence, which is strong with all of its required
\* evidence and weak with none; and the 'if angle' guards of the callers
\* (the summary blocks of the comprehensive prompt, the web handlers' lists,
\* the strengths the questionnaire shows) keep every key returned.
C29_ClassifiedAnglesResolve ==
    Returned("analyze_situation") =>
        LET keys == ret.value
        IN  /\ \A i \in 1..Len(keys) : Classified(keys[i])
            /\ Len(angle_details(keys)) = Len(keys)
            /\ Len(AngleNames(keys)) = Len(keys)
            /\ Len(SuggestedDetails(keys)) = Len(keys)
            /\ Len(ShownStrengths(keys, <<>>)) = Len(keys)

\* analyze_situation has returned all nine rule keys
C29_Witness ==
    /\ Returned("analyze_situation")
    /\ Len(ret.value) = 9
    /\ Range(ret.value) = DOMAIN appeal_angles

(***************************************************************************)
(* Properties of the two jurisdiction catalogs together.                   *)
(***************************************************************************)
\* C30: every city record's state is a key of the state catalog; for every
\* city get_cities_for_state returns for a code, get_combined_info of that
\* city and that code holds the state record and the city record; every code
\* of get_all_states resolves through get_state_info to a record with a name,
\* and get_states lists each of them with its name.
C30_CatalogsConsistent ==
    /\ \A city \in DOMAIN city_regulations :
           city_regulations[city].state \in DOMAIN state_regulations
    /\ (Returned("get_cities_for_state") /\ ret.kind = "return") =>
           \A i \in 1..Len(ret.value) :
               LET info == get_combined_info(Str(ret.value[i]), args.state_code)
               IN  /\ info.kind = "return"
                   /\ info.value.state = state_regulations[UpperOf(args.state_code).value]
                   /\ info.value.city = city_regulations[ret.value[i]]
    /\ Returned("get_all_states") =>
           \A i \in 1..Len(ret.value) :
               LET info == get_state_info(Str(ret.value[i]))
               IN  /\ info.kind = "return"
                   /\ info.value # NoneValue
                   /\ "name" \in DOMAIN info.value
                   /\ info.value.name # ""
    /\ Returned("get_states") =>
           /\ ret.kind = "return"
           /\ DOMAIN ret.value = DOMAIN state_regulations
           /\ \A state_code \in DOMAIN ret.value :
                  ret.value[state_code]
                      = [code |-> state_code, name |-> state_regulations[state_code].name]

\* get_cities_for_state was asked for the code "ca" and has returned the two
\* cities of California
C30_Witness ==
    /\ Returned("get_cities_for_state")
    /\ args.state_code = Str(<<"c", "a">>)
    /\ ret = Return(<<"San Francisco", "Los Angeles">>)

====
